---- MODULE Spec2Model ----
(***************************************************************************)
(* The AI tool-call confirmation protocol of EmeraldRecords.               *)
(*                                                                         *)
(* The repository holds four iterations of the chat assistant:             *)
(*   "A"  src/components/AiChatAssistant.tsx  addRecord / updateRecord /   *)
(*        deleteRecord, served by handleChat (src/api/gemini.ts:240-362)   *)
(*   "B"  src/unnamed/part_002                PROPOSE_UPDATE as JSON text, *)
(*        hosted by src/components/DashboardScreen.tsx                     *)
(*   "C"  src/unnamed/part_003:1-160          updateSystem, hosted by      *)
(*        src/App.tsx:85-222, served by handleAiResponse (part_011)        *)
(*   "D"  src/unnamed/part_003:161-348        createRecord / updateRecord /*)
(*        deleteRecord / searchRecords, served by handleAiResponse         *)
(*        (src/api/gemini.ts:471-521)                                      *)
(* The record callbacks a chat receives are the handlers of                *)
(* src/components/DashboardScreen.tsx:40-71 over the record store adapter  *)
(* of src/unnamed/part_014:35-88.                                          *)
(*                                                                         *)
(* Records "r1" and "r2" are present at start; GhostId names no record.    *)
(***************************************************************************)
EXTENDS Integers, Sequences, FiniteSets, TLC

VARIABLES
    variant,          \* which iteration of the chat assistant runs
    adapter,          \* which record store adapter the build imports as apiService
    messages,         \* useState<ChatMessage[]>: the transcript
    isLoading,        \* useState(false): a gateway request is awaited
    pendingToolCall,  \* useState<ToolCallPayload | null> (pendingAction in "B")
    request,          \* the chatHistory of the gateway request in flight, or NoRequest
    records,          \* DashboardScreen's useState<Record[]>: the local list
    store,            \* the record store (localStorage RECORDS_KEY / hosted table)
    inflight,         \* store calls issued and not yet settled
    nextId,           \* number of ids the store has generated
    filters,          \* the filters last handed to onSearch ("D")
    systemDocument,   \* App's useState<System | null> ("C")
    storeDocument,    \* the row of the systems table ("C")
    mounted,          \* the chat component is mounted (its session is live)
    lastEvent,        \* the handler that ran last
    lastSettled,      \* the store call the last step settled, with its outcome
    lastResponse,     \* the response body the last step received from the gateway
    tags,             \* for each transcript entry: its submission and kind
    searchTerm,       \* TableView's useState(''): the free-text search (part_009:42)
    isLoggedIn,       \* App's useState<boolean>(false) (App.tsx:86)
    needsSetup,       \* App's useState<boolean>(false) (App.tsx:88)
    appIsLoading      \* App's isLoading (App.tsx:85): the spinner is shown

vars == <<variant, adapter, messages, isLoading, pendingToolCall, request, records, store,
          inflight, nextId, filters, systemDocument, storeDocument, mounted,
          lastEvent, lastSettled, lastResponse, tags, searchTerm, isLoggedIn,
          needsSetup, appIsLoading>>

chatVars == <<messages, isLoading, pendingToolCall, request, filters, tags>>
hostVars == <<records, store, inflight, nextId, systemDocument, storeDocument, mounted>>
shellVars == <<isLoggedIn, needsSetup, appIsLoading>>

(***************************************************************************)
(* Bounds                                                                  *)
(***************************************************************************)
MaxMsgs == 5      \* a submission is modelled only while the transcript is shorter
MaxInflight == 2
MaxFilters == 2   \* store calls awaited at the same time

(***************************************************************************)
(* Values                                                                  *)
(***************************************************************************)
\* the localStorage adapter (part_014:35-88) and the hosted-table adapter that
\* converts the keys it sends (apiService.ts:196-318)
Adapters == {"localStorage", "supabase"}
\* with the REST adapter of apiService.ts:1-76
StoreAdapters == Adapters \cup {"rest"}
Variants == {"A", "B", "C", "D"}
Undefined == "undefined"     \* a JavaScript undefined of a string-valued place
GhostId == "r9"              \* an id that names no record
FreshIds == <<"n1", "n2">>   \* the ids the store generates, in order
NoCall == [name |-> "null"]  \* pendingToolCall === null
NoRequest == <<[role |-> "none", content |-> "none"]>>
NoDocument == [id |-> "null"]
NoFilters == <<[columnId |-> "none"]>>   \* onSearch is not called
NoSettled == [op |-> "none"]
NoResponse == [none |-> TRUE]

Greeting == "Hello!"
ChatErrorText == "Sorry, I encountered an error. Please try again."
UnexpectedText == "Sorry, I received an unexpected response. Please try again."
IncompleteText == "Sorry, the AI's response was incomplete. Please try again."
ErrorAckText == "It looks like there was an error performing that action."
CancelAckText == "Okay, I've cancelled the request."
DefaultConfirmation == "Please confirm this action."
SummaryText == "I can analyze that for you."
ClarifyText == "Which record do you mean?"
ConfirmText == "Are you sure?"
SearchText == "Here are the matching records."

DoneAckText(v) ==
    CASE v = "A" -> "Done. I've made the change."
      [] v = "B" -> "Done. I've applied the update."
      [] v = "C" -> "Done. I've updated the system document."
      [] OTHER   -> "Done. I've performed the action."

Inputs == {"", " ", "set status to Done"}

\* String.prototype.trim on the inputs of the model
Trim(s) == IF s = " " THEN "" ELSE s

InitialRecords ==
    << [id |-> "r1", name |-> "Acme", status |-> "Todo"],
       [id |-> "r2", name |-> "Bolt", status |-> "Todo"] >>

InitialDocument == [id |-> "s1", created_at |-> "t0", name |-> "New System", version |-> 1]

\* args[k] of a JavaScript object: undefined when the key is absent
Has(args, k) == k \in DOMAIN args
StrArg(args, k) == IF k \in DOMAIN args THEN args[k] ELSE Undefined
Truthy(s) == s # Undefined /\ s # ""

\* { ...r, ...u }
Spread(r, u) ==
    [f \in (DOMAIN r) \cup (DOMAIN u) |-> IF f \in DOMAIN u THEN u[f] ELSE r[f]]

Ids(list) == {list[i].id : i \in 1..Len(list)}

Msg(role, content) == [role |-> role, content |-> content]

Last(s) == s[Len(s)]

(***************************************************************************)
(* The model's answers (what generateContent can return)                   *)
(***************************************************************************)
Call(name, args) == [name |-> name, args |-> args]
Gemini(calls, text) == [calls |-> calls, text |-> text]

StatusDone == [status |-> "Done"]
NameZed == [name |-> "Zed"]
NewRecord == [name |-> "Core", status |-> "Todo", dueDate |-> "Fri"]

\* what the user does in the table: the rows edited or deleted one by one,
\* the values typed into the form of an edited row, the rows selected, the
\* card dragged on the board
RowIds == {"r1", "r2"}
Edited == [name |-> "Acme", status |-> "Done"]
Selected == {"r1", "r2"}
Dragged == "r2"

TextAnswers == { Gemini(<<>>, ClarifyText), Gemini(<<>>, Undefined) }

\* function calls the model can make against handleChat's tools ("A")
GeminiA ==
    { Gemini(<<Call("updateRecord", [recordId |-> "r1", updates |-> StatusDone, confirmationMessage |-> ConfirmText])>>, Undefined),
      Gemini(<<Call("updateRecord", [recordId |-> "r1", updates |-> NameZed, confirmationMessage |-> ConfirmText])>>, Undefined),
      Gemini(<<Call("updateRecord", [recordId |-> GhostId, updates |-> StatusDone, confirmationMessage |-> ConfirmText])>>, Undefined),
      Gemini(<<Call("updateRecord", [updates |-> StatusDone])>>, Undefined),
      Gemini(<<Call("addRecord", [recordData |-> NewRecord, confirmationMessage |-> ConfirmText])>>, Undefined),
      Gemini(<<Call("deleteRecord", [recordId |-> "r2", confirmationMessage |-> ConfirmText])>>, Undefined),
      Gemini(<<Call("deleteRecord", [recordId |-> GhostId, confirmationMessage |-> ConfirmText])>>, Undefined),
      Gemini(<<Call("archiveRecord", [recordId |-> "r1", confirmationMessage |-> ConfirmText])>>, Undefined),
      Gemini(<<Call("getSummary", [question |-> "how many?"])>>, Undefined),
      Gemini(<<Call("getSummary", [question |-> "how many?"]),
               Call("updateRecord", [recordId |-> "r1", updates |-> StatusDone, confirmationMessage |-> ConfirmText])>>, Undefined),
      Gemini(<<Call("updateRecord", [recordId |-> "r1", updates |-> StatusDone, confirmationMessage |-> ConfirmText]),
               Call("deleteRecord", [recordId |-> "r2", confirmationMessage |-> ConfirmText])>>, Undefined) }
    \cup TextAnswers

\* function calls against buildTools' declarations ("D")
GeminiD ==
    { Gemini(<<Call("updateRecord", [recordId |-> "r1", record |-> StatusDone, confirmationMessage |-> ConfirmText])>>, Undefined),
      Gemini(<<Call("updateRecord", [recordId |-> "r1", record |-> NameZed, confirmationMessage |-> ConfirmText])>>, Undefined),
      Gemini(<<Call("updateRecord", [recordId |-> GhostId, record |-> StatusDone, confirmationMessage |-> ConfirmText])>>, Undefined),
      Gemini(<<Call("updateRecord", [record |-> StatusDone, confirmationMessage |-> ConfirmText])>>, Undefined),
      Gemini(<<Call("updateRecord", [recordId |-> "r1", record |-> StatusDone])>>, Undefined),
      Gemini(<<Call("createRecord", [record |-> NewRecord, confirmationMessage |-> ConfirmText])>>, Undefined),
      Gemini(<<Call("createRecord", [confirmationMessage |-> ConfirmText])>>, Undefined),
      Gemini(<<Call("deleteRecord", [recordId |-> "r2", confirmationMessage |-> ConfirmText])>>, Undefined),
      Gemini(<<Call("deleteRecord", [recordId |-> GhostId, confirmationMessage |-> ConfirmText])>>, Undefined),
      Gemini(<<Call("deleteRecord", [confirmationMessage |-> ConfirmText])>>, Undefined),
      Gemini(<<Call("deleteRecord", [recordId |-> "r2", confirmationMessage |-> ""])>>, Undefined),
      Gemini(<<Call("archiveRecord", [recordId |-> "r1", confirmationMessage |-> ConfirmText])>>, Undefined),
      Gemini(<<Call("searchRecords", [filters |-> <<[columnId |-> "status", operator |-> "EQUALS", value |-> "Done"]>>, responseMessage |-> SearchText])>>, Undefined),
      Gemini(<<Call("searchRecords", [filters |-> <<[columnId |-> "status", operator |-> "EQUALS", value |-> "Todo"]>>])>>, Undefined),
      Gemini(<<Call("searchRecords", [responseMessage |-> SearchText])>>, Undefined),
      Gemini(<<Call("updateRecord", [recordId |-> "r1", record |-> StatusDone, confirmationMessage |-> ConfirmText]),
               Call("deleteRecord", [recordId |-> "r2", confirmationMessage |-> ConfirmText])>>, Undefined) }
    \cup TextAnswers

\* function calls against the updateSystem tool ("C")
GeminiC ==
    { Gemini(<<Call("updateSystem", [updatedSystem |-> [name |-> "Plant", version |-> 2], confirmationMessage |-> ConfirmText])>>, Undefined),
      Gemini(<<Call("updateSystem", [updatedSystem |-> [id |-> "s7", created_at |-> "t9", name |-> "Mill", version |-> 2], confirmationMessage |-> ConfirmText])>>, Undefined),
      Gemini(<<Call("updateSystem", [updatedSystem |-> [name |-> "Plant", version |-> 2]])>>, Undefined),
      Gemini(<<Call("resetSystem", [confirmationMessage |-> ConfirmText])>>, Undefined) }
    \cup TextAnswers

\* the text getAiChatResponse of "B" can return: plain text, or JSON text
\* (json: the value JSON.parse yields; raw: the text itself)
JsonText(value) == [json |-> TRUE, value |-> value, raw |-> "{json}"]
PlainText(raw) == [json |-> FALSE, value |-> <<>>, raw |-> raw]
Propose(payload) == JsonText([action |-> "PROPOSE_UPDATE", payload |-> payload])

GeminiB ==
    { Propose([recordId |-> "r1", updates |-> StatusDone, confirmationMessage |-> ConfirmText]),
      Propose([recordId |-> "r1", updates |-> NameZed, confirmationMessage |-> ConfirmText]),
      Propose([recordId |-> GhostId, updates |-> StatusDone, confirmationMessage |-> ConfirmText]),
      Propose([updates |-> StatusDone, confirmationMessage |-> ConfirmText]),
      Propose([recordId |-> "r1", updates |-> StatusDone]),
      JsonText([action |-> "PROPOSE_UPDATE"]),
      JsonText([action |-> "ANSWER"]),
      PlainText(ClarifyText),
      PlainText(Undefined) }

(***************************************************************************)
(* The gateway: the server handlers that turn the model's answer into the  *)
(* response body (JSON.stringify drops a key whose value is undefined)     *)
(***************************************************************************)
TextBody(text) == IF text = Undefined THEN <<>> ELSE [text |-> text]

\* src/api/gemini.ts:335-356
handleChat(answer) ==
    IF Len(answer.calls) > 0
    THEN LET call == answer.calls[1] IN
         IF call.name = "getSummary"
         THEN [text |-> SummaryText]
         ELSE [toolCall |->
                 [name |-> call.name,
                  args |-> call.args,
                  confirmationMessage |->
                      IF Truthy(StrArg(call.args, "confirmationMessage"))
                      THEN call.args.confirmationMessage
                      ELSE DefaultConfirmation]]
    ELSE TextBody(answer.text)

\* src/api/gemini.ts:501-514 and src/unnamed/part_011:177-190
handleAiResponse(answer) ==
    IF Len(answer.calls) > 0
    THEN LET call == answer.calls[1] IN
         [toolCall |-> [name |-> call.name, args |-> call.args]]
    ELSE TextBody(answer.text)

\* src/api/gemini.ts:489-492 and src/unnamed/part_011:162-165: the contents
\* handleAiResponse hands to the model
contents(chatHistory) ==
    [i \in 1..Len(chatHistory) |->
        [role |-> chatHistory[i].role, parts |-> <<[text |-> chatHistory[i].content]>>]]

(***************************************************************************)
(* What handleSendMessage does with a response: the contents it appends    *)
(* (say), whether the entry is a confirmation prompt (kind), the tool call *)
(* it stores (pend, NoCall for none) and the filters it hands to onSearch  *)
(***************************************************************************)
Effect(say, kind, pend, search) ==
    [say |-> say, kind |-> kind, pend |-> pend, search |-> search]
\* faulty variant: the text is appended twice
ReplyTwice(text) == Effect(<<text, text>>, "reply", NoCall, NoFilters)

Reply(text) == Effect(<<text>>, "reply", NoCall, NoFilters)
\* faulty variant: the tool call is parked without its confirmation message
PromptWithoutMessage(text, call) == Effect(<<>>, "prompt", call, NoFilters)

Prompt(text, call) == Effect(<<text>>, "prompt", call, NoFilters)

\* src/components/AiChatAssistant.tsx:46-53
onResponseA(response) ==
    IF Has(response, "toolCall")
    THEN Prompt(response.toolCall.confirmationMessage, response.toolCall)
    ELSE IF Has(response, "text") /\ Truthy(response.text)
    THEN Reply(response.text)
    ELSE Reply(UnexpectedText)

\* src/unnamed/part_002:44-56
onResponseB(responseText) ==
    IF ~responseText.json
    THEN Reply(responseText.raw)                      \* JSON.parse throws
    ELSE IF responseText.value.action = "PROPOSE_UPDATE"
    THEN IF ~Has(responseText.value, "payload")
         THEN Reply(responseText.raw)                 \* destructuring undefined throws
         ELSE LET payload == responseText.value.payload IN
              Prompt(StrArg(payload, "confirmationMessage"),
                     [recordId |-> StrArg(payload, "recordId"),
                      updates |-> payload.updates])
    ELSE Reply(responseText.raw)

\* src/unnamed/part_003:43-53
onResponseC(response) ==
    IF Has(response, "toolCall")
       /\ Truthy(StrArg(response.toolCall.args, "confirmationMessage"))
    THEN Prompt(response.toolCall.args.confirmationMessage, response.toolCall)
    ELSE IF Has(response, "text") /\ Truthy(response.text)
    THEN Reply(response.text)
    ELSE Reply(UnexpectedText)

\* faulty variant: the searchRecords branch is missing
onResponseDWithoutSearch(response) ==
    IF Has(response, "toolCall")
    THEN IF Truthy(StrArg(response.toolCall.args, "confirmationMessage"))
         THEN Prompt(response.toolCall.args.confirmationMessage, response.toolCall)
         ELSE Reply(IncompleteText)
    ELSE IF Has(response, "text") /\ Truthy(response.text)
    THEN Reply(response.text)
    ELSE Reply(UnexpectedText)

\* src/unnamed/part_003:207-232
onResponseD(response) ==
    IF Has(response, "toolCall")
    THEN LET toolCall == response.toolCall IN
         IF toolCall.name = "searchRecords"
         THEN Effect(IF Truthy(StrArg(toolCall.args, "responseMessage"))
                     THEN <<toolCall.args.responseMessage>> ELSE <<>>,
                     "reply", NoCall,
                     IF Has(toolCall.args, "filters") THEN toolCall.args.filters ELSE NoFilters)
         ELSE IF Truthy(StrArg(toolCall.args, "confirmationMessage"))
         THEN Prompt(toolCall.args.confirmationMessage, toolCall)
         ELSE Reply(IncompleteText)
    ELSE IF Has(response, "text") /\ Truthy(response.text)
    THEN Reply(response.text)
    ELSE Reply(UnexpectedText)

\* the response bodies a gateway request of variant v can resolve with
\* ("B" calls the model directly and gets its text: part_013:185-193)
Responses(v) ==
    CASE v = "A" -> {handleChat(a) : a \in GeminiA}
      [] v = "B" -> GeminiB
      [] v = "C" -> {handleAiResponse(a) : a \in GeminiC}
      [] OTHER   -> {handleAiResponse(a) : a \in GeminiD}

onResponse(v, response) ==
    CASE v = "A" -> onResponseA(response)
      [] v = "B" -> onResponseB(response)
      [] v = "C" -> onResponseC(response)
      [] OTHER   -> onResponseD(response)

(***************************************************************************)
(* The record store adapter (src/unnamed/part_014:46-81) and the system    *)
(* document adapter (src/unnamed/part_014:122-139)                         *)
(***************************************************************************)
MapList(list, id, rec) ==
    [i \in 1..Len(list) |-> IF list[i].id = id THEN rec ELSE list[i]]

FilterOut(list, id) == SelectSeq(list, LAMBDA r : r.id # id)

Find(list, id) == list[CHOOSE i \in 1..Len(list) : list[i].id = id]

\* src/services/apiService.ts:209: str.replace(/[A-Z]/g, l => `_${l.toLowerCase()}`)
\* on the field names of the model
camelToSnakeCase(str) == IF str = "dueDate" THEN "due_date" ELSE str

\* src/services/apiService.ts:211-217
convertKeysToSnakeCase(obj) ==
    [k \in {camelToSnakeCase(f) : f \in DOMAIN obj} |->
        obj[CHOOSE f \in DOMAIN obj : camelToSnakeCase(f) = k]]

\* what the adapter sends to the store for the data it is given
\* (apiService.ts:241 and :276; part_014 sends the data as it is)
Sent(data) == IF adapter = "supabase" THEN convertKeysToSnakeCase(data) ELSE data

\* src/unnamed/part_014:46-56 and apiService.ts:238-254: the record the store
\* creates and returns
addRecord(recordData, freshId) == Spread(Sent(recordData), [id |-> freshId])

\* src/unnamed/part_014:58-74 and apiService.ts:273-290: { ...r, ...updates }
\* of the stored record
updateRecord(stored, recordId, updates) == Spread(Find(stored, recordId), Sent(updates))

\* src/unnamed/part_014:35-39 and apiService.ts:220-236: the stored rows are
\* passed through as they are
getRecords(stored) == stored

\* src/unnamed/part_014:76-81
deleteRecord(stored, recordId) == FilterOut(stored, recordId)

\* src/unnamed/part_014:83-88
deleteBulkRecords(stored, recordIds) == SelectSeq(stored, LAMBDA r : r.id \notin recordIds)

\* src/unnamed/part_014:125: const { created_at, ...updateData } = updates
updateData(updates) == [f \in (DOMAIN updates) \ {"created_at"} |-> updates[f]]

\* src/unnamed/part_014:122-132: created_at is dropped from the update
updateSystemDocument(row, updates) == Spread(row, updateData(updates))

(***************************************************************************)
(* Store calls in flight.  snapshot is the local list the calling handler  *)
(* closed over (handleSaveRecord and handleDelete use `records`, not a     *)
(* functional update); ack is the transcript position of the               *)
(* acknowledgment the confirm appended (0 for a call the chat did not      *)
(* issue).                                                                 *)
(***************************************************************************)
StoreCall(op, id, data, snapshot) ==
    [op |-> op, id |-> id, data |-> data, snapshot |-> snapshot, ack |-> 0]

\* src/components/DashboardScreen.tsx:44-46 (editingId null)
handleSaveRecord(recordData, local) == StoreCall("addRecord", Undefined, recordData, local)

\* src/components/DashboardScreen.tsx:41-43 (editingId set): the list the
\* handler closed over is mapped once the store has answered
handleSaveEdit(recordData, editingId, local) ==
    StoreCall("updateRecord", editingId, recordData, local)

\* src/components/DashboardScreen.tsx:57-60 (window.confirm accepted)
handleBulkDelete(recordIds, local) == StoreCall("deleteBulkRecords", recordIds, <<>>, local)

\* src/components/DashboardScreen.tsx:64-65
handleUpdateRecord(recordId, updates) == StoreCall("updateRecord", recordId, updates, <<>>)

\* src/components/DashboardScreen.tsx:52-53 (the chat bypasses window.confirm)
handleDelete(recordId, local) == StoreCall("deleteRecord", recordId, <<>>, local)

\* src/App.tsx:153-157
handleSystemUpdate(updatedDocument) ==
    StoreCall("updateSystemDocument", updatedDocument.id, updatedDocument, <<>>)

\* src/App.tsx:99-103
loadSystem == StoreCall("getSystemDocument", Undefined, <<>>, <<>>)

(***************************************************************************)
(* handleConfirmAction's dispatch: whether it threw, and the store call    *)
(* the callback issued (calls is empty when none was issued)               *)
(***************************************************************************)
\* faulty variant: the default branch logs the unknown name and goes on
Swallowed == [threw |-> FALSE, calls |-> <<>>]

Threw == [threw |-> TRUE, calls |-> <<>>]
Called(call) == [threw |-> FALSE, calls |-> <<call>>]

ObjArg(args, k) == IF Has(args, k) THEN args[k] ELSE <<>>

\* src/components/AiChatAssistant.tsx:67-83
dispatchA(toolCall, local) ==
    CASE toolCall.name = "addRecord" ->
            Called(handleSaveRecord(ObjArg(toolCall.args, "recordData"), local))
      [] toolCall.name = "updateRecord" ->
            Called(handleUpdateRecord(StrArg(toolCall.args, "recordId"),
                                      ObjArg(toolCall.args, "updates")))
      [] toolCall.name = "deleteRecord" ->
            Called(handleDelete(StrArg(toolCall.args, "recordId"), local))
      [] OTHER -> Threw

\* src/unnamed/part_002:68
dispatchB(pendingAction) ==
    Called(handleUpdateRecord(pendingAction.recordId, pendingAction.updates))

\* faulty variant: the fields of the tool call win over those of the document
dispatchCArgsWin(toolCall, document) ==
    IF toolCall.name = "updateSystem"
    THEN Called(handleSystemUpdate(
             Spread([id |-> document.id, created_at |-> document.created_at],
                    ObjArg(toolCall.args, "updatedSystem"))))
    ELSE Threw

\* src/unnamed/part_003:68-79
dispatchC(toolCall, document) ==
    IF toolCall.name = "updateSystem"
    THEN Called(handleSystemUpdate(
             Spread(ObjArg(toolCall.args, "updatedSystem"),
                    [id |-> document.id, created_at |-> document.created_at])))
    ELSE Threw

\* src/unnamed/part_003:247-267
dispatchD(toolCall, local) ==
    CASE toolCall.name = "createRecord" ->
            IF Has(toolCall.args, "record")
            THEN Called(handleSaveRecord(toolCall.args.record, local))
            ELSE Threw
      [] toolCall.name = "updateRecord" ->
            IF Truthy(StrArg(toolCall.args, "recordId")) /\ Has(toolCall.args, "record")
            THEN Called(handleUpdateRecord(toolCall.args.recordId, toolCall.args.record))
            ELSE Threw
      [] toolCall.name = "deleteRecord" ->
            IF Truthy(StrArg(toolCall.args, "recordId"))
            THEN Called(handleDelete(toolCall.args.recordId, local))
            ELSE Threw
      [] OTHER -> Threw

dispatch(v, toolCall, local, document) ==
    CASE v = "A" -> dispatchA(toolCall, local)
      [] v = "B" -> dispatchB(toolCall)
      [] v = "C" -> dispatchC(toolCall, document)
      [] OTHER   -> dispatchD(toolCall, local)

(***************************************************************************)
(* The chat component                                                      *)
(***************************************************************************)
Tag(sub, kind) == [sub |-> sub, kind |-> kind]
Count(ts, kind) == Cardinality({i \in 1..Len(ts) : ts[i].kind = kind})
UserTurns(history) == Cardinality({i \in 1..Len(history) : history[i].role = "user"})

\* the submission whose confirmation prompt is the latest one
PromptSub(ts) ==
    LET ps == {i \in 1..Len(ts) : ts[i].kind = "prompt"} IN
    IF ps = {} THEN 0 ELSE ts[CHOOSE i \in ps : \A j \in ps : j <= i].sub

ModelTurns(say) == [i \in 1..Len(say) |-> Msg("model", say[i])]
ModelTags(say, sub, kind) == [i \in 1..Len(say) |-> Tag(sub, kind)]

\* faulty variant: the early return forgets the pending tool call
rejectsIgnoringPending(userInput, loading, pending) ==
    Trim(userInput) = "" \/ loading

\* faulty variant: the early return forgets the loading flag
rejectsIgnoringLoading(userInput, loading, pending) ==
    Trim(userInput) = "" \/ pending # NoCall

\* handleSendMessage's early return (AiChatAssistant.tsx:36, part_002:34,
\* part_003:33 and :197)
rejects(userInput, loading, pending) ==
    Trim(userInput) = "" \/ loading \/ pending # NoCall

\* faulty variant: only the new message is sent
latestOnly(msgs, userInput) == <<Msg("user", userInput)>>

\* [...messages, { role: 'user', content: userInput }]
newHistory(msgs, userInput) == Append(msgs, Msg("user", userInput))

\* faulty variant: the new entry is put in front of the transcript
prependModel(prev, say) == ModelTurns(say) \o prev

\* setMessages(prev => [...prev, { role: 'model', content }])
appendModel(prev, say) == prev \o ModelTurns(say)

\* handleSendMessage up to its await (AiChatAssistant.tsx:34-44)
handleSendMessage(userInput) ==
    /\ mounted
    /\ lastEvent' = "submit"
    /\ lastResponse' = NoResponse
    /\ IF rejects(userInput, isLoading, pendingToolCall)
       THEN UNCHANGED chatVars
       ELSE /\ Len(messages) < MaxMsgs
            /\ messages' = newHistory(messages, userInput)
            /\ tags' = Append(tags, Tag(Count(tags, "user") + 1, "user"))
            /\ isLoading' = TRUE
            /\ request' = newHistory(messages, userInput)
            /\ UNCHANGED <<pendingToolCall, filters>>
    /\ lastSettled' = NoSettled
    /\ UNCHANGED <<variant, adapter, searchTerm, shellVars, hostVars>>

\* faulty variant: a proposed tool call is applied as soon as it arrives
GatewayResolvesAndApplies(response) ==
    /\ mounted
    /\ request # NoRequest
    /\ lastEvent' = "response"
    /\ lastResponse' = response
    /\ LET effect == onResponse(variant, response)
           d == IF effect.pend # NoCall
                THEN dispatch(variant, effect.pend, records, systemDocument)
                ELSE Threw
       IN
       /\ Len(inflight) + Len(d.calls) <= MaxInflight
       /\ inflight' = inflight \o d.calls
       /\ messages' = messages \o ModelTurns(effect.say)
       /\ tags' = tags \o ModelTags(effect.say, UserTurns(request), effect.kind)
       /\ pendingToolCall' = IF effect.pend # NoCall THEN effect.pend ELSE pendingToolCall
       /\ filters' = IF effect.search # NoFilters THEN effect.search ELSE filters
    /\ isLoading' = FALSE
    /\ request' = NoRequest
    /\ lastSettled' = NoSettled
    /\ UNCHANGED <<variant, adapter, searchTerm, shellVars, records, store, nextId, systemDocument, storeDocument, mounted>>

\* handleSendMessage after the await resolved (AiChatAssistant.tsx:46-53,57-58)
GatewayResolves(response) ==
    /\ mounted
    /\ request # NoRequest
    /\ lastEvent' = "response"
    /\ lastResponse' = response
    /\ LET effect == onResponse(variant, response) IN
       /\ messages' = appendModel(messages, effect.say)
       /\ tags' = tags \o ModelTags(effect.say, UserTurns(request), effect.kind)
       /\ pendingToolCall' = IF effect.pend # NoCall THEN effect.pend ELSE pendingToolCall
       /\ filters' = IF effect.search # NoFilters THEN effect.search ELSE filters
    /\ isLoading' = FALSE
    /\ request' = NoRequest
    /\ lastSettled' = NoSettled
    /\ UNCHANGED <<variant, adapter, searchTerm, shellVars, hostVars>>

\* faulty variant: no finally block, the loading flag stays set
GatewayRejectsKeepsLoading ==
    /\ mounted
    /\ request # NoRequest
    /\ lastEvent' = "failure"
    /\ lastResponse' = NoResponse
    /\ messages' = appendModel(messages, <<ChatErrorText>>)
    /\ tags' = Append(tags, Tag(UserTurns(request), "reply"))
    /\ request' = NoRequest
    /\ lastSettled' = NoSettled
    /\ UNCHANGED <<isLoading, pendingToolCall, filters, variant, adapter, searchTerm, shellVars, hostVars>>

\* faulty variant: the catch block sends the same request again
GatewayRejectsAndRetries ==
    /\ mounted
    /\ request # NoRequest
    /\ lastEvent' = "failure"
    /\ lastResponse' = NoResponse
    /\ Len(messages) < MaxMsgs
    /\ messages' = appendModel(messages, <<ChatErrorText>>)
    /\ tags' = Append(tags, Tag(UserTurns(request), "reply"))
    /\ lastSettled' = NoSettled
    /\ UNCHANGED <<isLoading, request, pendingToolCall, filters, variant, adapter, searchTerm, shellVars, hostVars>>

\* handleSendMessage after the await rejected (AiChatAssistant.tsx:54-58)
GatewayRejects ==
    /\ mounted
    /\ request # NoRequest
    /\ lastEvent' = "failure"
    /\ lastResponse' = NoResponse
    /\ messages' = appendModel(messages, <<ChatErrorText>>)
    /\ tags' = Append(tags, Tag(UserTurns(request), "reply"))
    /\ isLoading' = FALSE
    /\ request' = NoRequest
    /\ lastSettled' = NoSettled
    /\ UNCHANGED <<pendingToolCall, filters, variant, adapter, searchTerm, shellVars, hostVars>>

\* faulty variant: the pending slot is cleared inside the try block, so a throwing
\* dispatch leaves it set
afterDispatchKeepsOnThrow(v, d, pending) ==
    [say |-> IF d.threw THEN ErrorAckText ELSE DoneAckText(v),
     pend |-> IF d.threw THEN pending ELSE NoCall]

\* what handleConfirmAction appends and leaves in the pending slot after the
\* dispatch (AiChatAssistant.tsx:84-89, part_002:69-70, part_003:80-86, :268-274)
afterDispatch(v, d, pending) ==
    [say |-> IF d.threw THEN ErrorAckText ELSE DoneAckText(v), pend |-> NoCall]

WithAck(calls, pos) == [i \in 1..Len(calls) |-> [calls[i] EXCEPT !.ack = pos]]

\* AiChatAssistant.tsx:62-90, part_002:66-71, part_003:62-87 and :241-275
handleConfirmAction ==
    /\ mounted
    /\ lastEvent' = "confirm"
    /\ lastResponse' = NoResponse
    /\ IF pendingToolCall = NoCall
       THEN UNCHANGED <<chatVars, hostVars>>
       ELSE LET d == dispatch(variant, pendingToolCall, records, systemDocument)
                after == afterDispatch(variant, d, pendingToolCall)
            IN /\ Len(inflight) + Len(d.calls) <= MaxInflight
               /\ inflight' = inflight \o WithAck(d.calls, Len(messages) + 1)
               /\ messages' = appendModel(messages, <<after.say>>)
               /\ tags' = Append(tags, Tag(PromptSub(tags), "ack"))
               /\ pendingToolCall' = after.pend
               \* App.tsx:155: setSystemDocument(updatedDocument) before the await
               /\ systemDocument' = IF variant = "C" /\ ~d.threw
                                    THEN d.calls[1].data ELSE systemDocument
               /\ UNCHANGED <<isLoading, request, filters, records, store, nextId,
                              storeDocument, mounted>>
    /\ lastSettled' = NoSettled
    /\ UNCHANGED <<variant, adapter, searchTerm, shellVars>>

\* faulty variant: cancel acknowledges but leaves the tool call pending
afterCancelKeepsPending(pending) == [say |-> CancelAckText, pend |-> pending]

\* what handleCancelAction appends and leaves in the pending slot
\* (AiChatAssistant.tsx:92-95, part_002:73-76, part_003:89-92 and :277-280)
afterCancel(pending) == [say |-> CancelAckText, pend |-> NoCall]

\* The Cancel button is rendered only while a tool call is pending
\* (AiChatAssistant.tsx:134-138); the handler has no guard of its own.
handleCancelAction ==
    /\ mounted
    /\ pendingToolCall # NoCall
    /\ lastEvent' = "cancel"
    /\ lastResponse' = NoResponse
    /\ LET after == afterCancel(pendingToolCall) IN
       /\ messages' = appendModel(messages, <<after.say>>)
       /\ tags' = Append(tags, Tag(PromptSub(tags), "ack"))
       /\ pendingToolCall' = after.pend
    /\ lastSettled' = NoSettled
    /\ UNCHANGED <<isLoading, request, filters, records, store, inflight, nextId,
                   systemDocument, storeDocument, mounted, variant, adapter, searchTerm, shellVars>>

(***************************************************************************)
(* The record form of the dashboard that hosts the chat panel "B" saves a  *)
(* new record: TableView's handleSaveRecord with no editingRecord          *)
(* (DashboardScreen.tsx:265-266) calls onSave = handleSaveRecord (:125)    *)
(***************************************************************************)
onSave(recordData) ==
    /\ mounted
    /\ variant = "B"
    /\ Len(inflight) < MaxInflight
    /\ inflight' = Append(inflight, handleSaveRecord(recordData, records))
    /\ lastEvent' = "form"
    /\ lastResponse' = NoResponse
    /\ lastSettled' = NoSettled
    /\ UNCHANGED <<chatVars, variant, adapter, searchTerm, shellVars, records, store, nextId, systemDocument,
                   storeDocument, mounted>>

\* the form saves an edit of a listed record: handleEdit and TableView's
\* handleSaveRecord with editingRecord set (DashboardScreen.tsx:260-266)
onSaveEditing(recordData, editingId) ==
    /\ mounted
    /\ variant = "B"
    /\ Len(inflight) < MaxInflight
    /\ editingId \in Ids(records)
    /\ inflight' = Append(inflight, handleSaveEdit(recordData, editingId, records))
    /\ lastEvent' = "edit"
    /\ lastResponse' = NoResponse
    /\ lastSettled' = NoSettled
    /\ UNCHANGED <<chatVars, variant, adapter, searchTerm, shellVars, records, store, nextId, systemDocument,
                   storeDocument, mounted>>

\* the delete button of a row (DashboardScreen.tsx:455) calls
\* onDelete = handleDelete (:126); the user accepts window.confirm (:51)
onDelete(recordId) ==
    /\ mounted
    /\ variant = "B"
    /\ Len(inflight) < MaxInflight
    /\ recordId \in Ids(records)
    /\ inflight' = Append(inflight, handleDelete(recordId, records))
    /\ lastEvent' = "delete"
    /\ lastResponse' = NoResponse
    /\ lastSettled' = NoSettled
    /\ UNCHANGED <<chatVars, variant, adapter, searchTerm, shellVars, records, store, nextId, systemDocument,
                   storeDocument, mounted>>

\* a card is dropped on another column of the board: KanbanView's handleDrop
\* (part_007:110-118) calls onUpdateRecord = handleUpdateRecord
\* (DashboardScreen.tsx:139) when the status differs
handleDrop(draggedRecordId, newStatus) ==
    /\ mounted
    /\ variant = "B"
    /\ Len(inflight) < MaxInflight
    /\ draggedRecordId \in Ids(records)
    /\ Find(records, draggedRecordId).status # newStatus
    /\ inflight' = Append(inflight, handleUpdateRecord(draggedRecordId, [status |-> newStatus]))
    /\ lastEvent' = "drop"
    /\ lastResponse' = NoResponse
    /\ lastSettled' = NoSettled
    /\ UNCHANGED <<chatVars, variant, adapter, searchTerm, shellVars, records, store, nextId, systemDocument,
                   storeDocument, mounted>>

\* handleDeleteSelected (DashboardScreen.tsx:342-343) calls
\* onBulkDelete = handleBulkDelete (:127) with the selected rows
onBulkDelete(recordIds) ==
    /\ mounted
    /\ variant = "B"
    /\ Len(inflight) < MaxInflight
    /\ recordIds \subseteq Ids(records)
    /\ inflight' = Append(inflight, handleBulkDelete(recordIds, records))
    /\ lastEvent' = "bulk"
    /\ lastResponse' = NoResponse
    /\ lastSettled' = NoSettled
    /\ UNCHANGED <<chatVars, variant, adapter, searchTerm, shellVars, records, store, nextId, systemDocument,
                   storeDocument, mounted>>

(***************************************************************************)
(* A store call settles: the adapter's effect on the store and the         *)
(* continuation of the handler that awaited it.  ok = FALSE is a request   *)
(* the hosted store rejects (apiService.ts:52, :169-172, part_014:134-137).*)
(***************************************************************************)
\* handleSaveRecord after apiService.addRecord (DashboardScreen.tsx:45-46)
settleAdd(call, ok, st, loc, n) ==
    IF ok
    THEN LET newRecord == addRecord(call.data, FreshIds[n + 1]) IN
         [store |-> <<newRecord>> \o st, records |-> <<newRecord>> \o call.snapshot,
          nextId |-> n + 1, ok |-> TRUE]
    ELSE [store |-> st, records |-> loc, nextId |-> n, ok |-> FALSE]

\* handleUpdateRecord after apiService.updateRecord (DashboardScreen.tsx:65-70);
\* the adapter throws when no stored record has the id (part_014:70-72)
settleUpdate(call, ok, st, loc, n) ==
    IF ok /\ call.id \in Ids(st)
    THEN LET updatedRecord == updateRecord(st, call.id, call.data) IN
         [store |-> MapList(st, call.id, updatedRecord),
          records |-> IF call.snapshot # <<>>
                      THEN MapList(call.snapshot, call.id, updatedRecord)
                      ELSE MapList(loc, call.id, updatedRecord),
          nextId |-> n, ok |-> TRUE]
    ELSE [store |-> st, records |-> loc, nextId |-> n, ok |-> FALSE]

\* handleDelete after apiService.deleteRecord (DashboardScreen.tsx:52-53).
\* The REST adapter awaits fetch and never looks at the response
\* (apiService.ts:56-62): an error status of the server resolves like a
\* success, and the handler goes on to filter its list
settleDelete(call, ok, st, loc, n) ==
    IF ok
    THEN [store |-> deleteRecord(st, call.id),
          records |-> FilterOut(call.snapshot, call.id), nextId |-> n, ok |-> TRUE]
    ELSE IF adapter = "rest"
    THEN [store |-> st,
          records |-> FilterOut(call.snapshot, call.id), nextId |-> n, ok |-> TRUE]
    ELSE [store |-> st, records |-> loc, nextId |-> n, ok |-> FALSE]

\* handleBulkDelete after apiService.deleteBulkRecords (DashboardScreen.tsx:59-60);
\* the REST adapter ignores the response here too (apiService.ts:64-70)
settleBulkDelete(call, ok, st, loc, n) ==
    IF ok
    THEN [store |-> deleteBulkRecords(st, call.id),
          records |-> SelectSeq(call.snapshot, LAMBDA r : r.id \notin call.id),
          nextId |-> n, ok |-> TRUE]
    ELSE IF adapter = "rest"
    THEN [store |-> st,
          records |-> SelectSeq(call.snapshot, LAMBDA r : r.id \notin call.id),
          nextId |-> n, ok |-> TRUE]
    ELSE [store |-> st, records |-> loc, nextId |-> n, ok |-> FALSE]

settleRecords(call, ok, st, loc, n) ==
    CASE call.op = "addRecord" -> settleAdd(call, ok, st, loc, n)
      [] call.op = "updateRecord" -> settleUpdate(call, ok, st, loc, n)
      [] call.op = "deleteBulkRecords" -> settleBulkDelete(call, ok, st, loc, n)
      [] OTHER -> settleDelete(call, ok, st, loc, n)

\* the store reports an error for the call: it rejects the request, or no
\* stored record has the id of an update (part_014:70-72, the error of
\* .single() at apiService.ts:283-288)
StoreRejects(call, ok, st) == ~ok \/ (call.op = "updateRecord" /\ call.id \notin Ids(st))

Remove(seq, i) == [j \in 1..(Len(seq) - 1) |-> IF j < i THEN seq[j] ELSE seq[j + 1]]

RecordCallSettles(i, ok) ==
    /\ i \in 1..Len(inflight)
    /\ inflight[i].op \in {"addRecord", "updateRecord", "deleteRecord", "deleteBulkRecords"}
    /\ inflight[i].op = "addRecord" /\ ok => nextId < Len(FreshIds)
    /\ LET call == inflight[i]
           r == settleRecords(call, ok, store, records, nextId)
       IN /\ store' = r.store
          /\ records' = r.records
          /\ nextId' = r.nextId
          /\ lastSettled' = [op |-> call.op, id |-> call.id, data |-> call.data,
                             ack |-> call.ack, ok |-> r.ok,
                             error |-> StoreRejects(call, ok, store)]
    /\ inflight' = Remove(inflight, i)
    /\ lastEvent' = "settle"
    /\ lastResponse' = NoResponse
    /\ UNCHANGED <<chatVars, variant, adapter, searchTerm, shellVars, systemDocument, storeDocument, mounted>>

\* handleSystemUpdate after apiService.updateSystemDocument (App.tsx:156-163):
\* on failure loadSystem starts, App shows its spinner (App.tsx:100, :186)
\* and the dashboard with its chat is unmounted
DocumentUpdateSettles(i, ok) ==
    /\ i \in 1..Len(inflight)
    /\ inflight[i].op = "updateSystemDocument"
    /\ LET call == inflight[i] IN
       /\ storeDocument' = IF ok THEN updateSystemDocument(storeDocument, call.data)
                                 ELSE storeDocument
       \* the catch calls loadSystem (App.tsx:162): setIsLoading(true),
       \* setNeedsSetup(false), then the request; with the credentials cleared
       \* by a logout getSupabaseClient throws (supabaseClient.ts:20-22) and
       \* loadSystem's own catch logs out at once (App.tsx:115-120)
       /\ inflight' = IF ok \/ ~isLoggedIn THEN Remove(inflight, i)
                            ELSE Append(Remove(inflight, i), loadSystem)
       /\ mounted' = IF ok THEN mounted ELSE FALSE
       /\ appIsLoading' = IF ok THEN appIsLoading ELSE isLoggedIn
       /\ needsSetup' = IF ok THEN needsSetup ELSE FALSE
       /\ systemDocument' = IF ok \/ isLoggedIn THEN systemDocument ELSE NoDocument
       /\ lastSettled' = [op |-> call.op, id |-> call.id, data |-> call.data,
                          ack |-> call.ack, ok |-> ok, error |-> ~ok]
    /\ lastEvent' = "settle"
    /\ lastResponse' = NoResponse
    /\ UNCHANGED <<chatVars, variant, adapter, searchTerm, isLoggedIn, records, store, nextId>>

\* how apiService.getSystemDocument can end for loadSystem: a document, the
\* error code of a missing table, any other error (App.tsx:108, 112, 115)
LoadOutcomes == {"ok", "42P01", "error"}

\* loadSystem after apiService.getSystemDocument (App.tsx:103-121)
DocumentLoadSettles(i, outcome) ==
    /\ i \in 1..Len(inflight)
    /\ inflight[i].op = "getSystemDocument"
    /\ systemDocument' = CASE outcome = "ok" -> storeDocument
                            [] outcome = "42P01" -> systemDocument
                            [] OTHER -> NoDocument              \* handleLogout
    /\ needsSetup' = CASE outcome = "ok" -> needsSetup
                        [] outcome = "42P01" -> TRUE
                        [] OTHER -> FALSE
    /\ isLoggedIn' = IF outcome = "error" THEN FALSE ELSE isLoggedIn
    /\ appIsLoading' = FALSE
    /\ inflight' = Remove(inflight, i)
    /\ lastSettled' = [op |-> "getSystemDocument", id |-> Undefined, data |-> <<>>,
                       ack |-> 0, ok |-> outcome = "ok", error |-> outcome # "ok"]
    /\ lastEvent' = "settle"
    /\ lastResponse' = NoResponse
    /\ UNCHANGED <<chatVars, variant, adapter, searchTerm, records, store, nextId, storeDocument, mounted>>

(***************************************************************************)
(* The table view of the workspace (src/unnamed/part_009): the rows it      *)
(* displays are computed from the records, the structured filters and the  *)
(* free-text search.  A text is handled through its characters so that     *)
(* toLowerCase and includes are computed, not assumed.                     *)
(***************************************************************************)
\* the records the table is given: a number column, a date column, one record
\* without them
TableRecords ==
    << [id |-> "r1", name |-> "Acme", status |-> "Todo", qty |-> 5, created_at |-> "t1"],
       [id |-> "r2", name |-> "Bolt", status |-> "Done", qty |-> 12, created_at |-> "t2"],
       [id |-> "r3", name |-> "Core", status |-> "Todo"] >>

NumberColumns == {"qty"}

\* the characters of the texts that occur in records, filters and searches
Chars(str) ==
    CASE str = "Acme" -> <<"A", "c", "m", "e">>
      [] str = "Bolt" -> <<"B", "o", "l", "t">>
      [] str = "Core" -> <<"C", "o", "r", "e">>
      [] str = "Todo" -> <<"T", "o", "d", "o">>
      [] str = "Done" -> <<"D", "o", "n", "e">>
      [] str = "done" -> <<"d", "o", "n", "e">>
      [] str = "o" -> <<"o">>
      [] str = "7" -> <<"7">>
      [] str = "r1" -> <<"r", "1">>
      [] str = "r2" -> <<"r", "2">>
      [] str = "r3" -> <<"r", "3">>
      [] str = "t1" -> <<"t", "1">>
      [] str = "t2" -> <<"t", "2">>
      [] OTHER -> <<>>

DigitChars == <<"0", "1", "2", "3", "4", "5", "6", "7", "8", "9">>

RECURSIVE Digits(_)
Digits(n) == IF n < 10 THEN <<DigitChars[n + 1]>>
             ELSE Digits(n \div 10) \o <<DigitChars[(n % 10) + 1]>>

\* String(value)
String(record, columnId) ==
    IF columnId \in NumberColumns THEN Digits(record[columnId]) ELSE Chars(record[columnId])

LowerChar(c) ==
    CASE c = "A" -> "a" [] c = "B" -> "b" [] c = "C" -> "c" [] c = "D" -> "d"
      [] c = "T" -> "t" [] OTHER -> c

toLowerCase(chars) == [i \in 1..Len(chars) |-> LowerChar(chars[i])]

includes(chars, part) ==
    \E i \in 0..(Len(chars) - Len(part)) : SubSeq(chars, i + 1, i + Len(part)) = part

\* Number(text): the value of a text of digits, 0 for the empty text, NaN
\* for any other text
NaN == [nan |-> TRUE, n |-> 0]
Num(n) == [nan |-> FALSE, n |-> n]

DigitValue(c) == CHOOSE d \in 0..9 : DigitChars[d + 1] = c

RECURSIVE Value(_)
Value(chars) == IF chars = <<>> THEN 0
                ELSE 10 * Value(SubSeq(chars, 1, Len(chars) - 1)) + DigitValue(Last(chars))

Number(chars) ==
    IF \A i \in 1..Len(chars) : \E d \in 1..10 : DigitChars[d] = chars[i]
    THEN Num(Value(chars)) ELSE NaN

NumberOf(record, columnId) ==
    IF columnId \in NumberColumns THEN Num(record[columnId])
    ELSE Number(Chars(record[columnId]))

\* a comparison with NaN is false
Greater(a, b) == ~a.nan /\ ~b.nan /\ a.n > b.n

\* the order of the created_at stamps
Stamp(str) == CASE str = "t1" -> 1 [] str = "t2" -> 2 [] OTHER -> 0

\* part_009:72-80 with sortColumn 'created_at' and sortDirection 'desc', the
\* initial values (part_009:40-41)
compare(a, b) ==
    IF ~Has(a, "created_at") THEN 1
    ELSE IF ~Has(b, "created_at") THEN -1
    ELSE IF Stamp(a.created_at) < Stamp(b.created_at) THEN 1
    ELSE IF Stamp(a.created_at) > Stamp(b.created_at) THEN -1
    ELSE 0

\* Array.prototype.sort is stable: an element goes behind those it does not
\* precede
Insert(sorted, x) ==
    LET before == {i \in 1..Len(sorted) : compare(x, sorted[i]) < 0}
        at == IF before = {} THEN Len(sorted) + 1
              ELSE CHOOSE i \in before : \A j \in before : i <= j
    IN SubSeq(sorted, 1, at - 1) \o <<x>> \o SubSeq(sorted, at, Len(sorted))

RECURSIVE sortedRecords(_)
sortedRecords(list) ==
    IF list = <<>> THEN <<>>
    ELSE Insert(sortedRecords(SubSeq(list, 1, Len(list) - 1)), Last(list))

\* the callback of filters.every (part_009:91-105)
matches(record, filter) ==
    IF ~Has(record, filter.columnId) THEN FALSE
    ELSE LET recordValueStr == toLowerCase(String(record, filter.columnId))
             filterValueStr == toLowerCase(Chars(filter.value))
         IN CASE filter.operator = "EQUALS" -> recordValueStr = filterValueStr
              [] filter.operator = "NOT_EQUALS" -> recordValueStr # filterValueStr
              [] filter.operator = "CONTAINS" -> includes(recordValueStr, filterValueStr)
              [] filter.operator = "GREATER_THAN" ->
                    Greater(NumberOf(record, filter.columnId), Number(Chars(filter.value)))
              [] filter.operator = "LESS_THAN" ->
                    Greater(Number(Chars(filter.value)), NumberOf(record, filter.columnId))
              [] OTHER -> TRUE

\* faulty variant: one matching filter is enough
some(list, record) == \E i \in 1..Len(list) : matches(record, list[i])

\* filters.every(...)
every(list, record) == \A i \in 1..Len(list) : matches(record, list[i])

\* Object.values(record).some(...) (part_009:112-114)
matchesSearch(record, term) ==
    \E f \in DOMAIN record :
        includes(toLowerCase(String(record, f)), toLowerCase(Chars(term)))

\* part_009:85-119
filteredRecords(list, activeFilters, term) ==
    LET recordsToFilter == sortedRecords(list)
        filtered == IF Len(activeFilters) > 0
                    THEN SelectSeq(recordsToFilter, LAMBDA r : every(activeFilters, r))
                    ELSE recordsToFilter
    IN IF term # ""
       THEN SelectSeq(filtered, LAMBDA r : matchesSearch(r, term))
       ELSE filtered

Filter(columnId, operator, value) ==
    [columnId |-> columnId, operator |-> operator, value |-> value]

\* the filters the user builds in the filter menu and the terms typed into
\* the search box
NewFilters ==
    { Filter("status", "EQUALS", "done"),
      Filter("status", "NOT_EQUALS", "Done"),
      Filter("name", "CONTAINS", "o"),
      Filter("qty", "GREATER_THAN", "7"),
      Filter("qty", "LESS_THAN", "7"),
      Filter("qty", "CONTAINS", "o"),
      Filter("name", "GREATER_THAN", "7") }

SearchTerms == {"", "o", "done", "7"}

\* part_009:258-268: the value must not be blank
handleAddFilter(newFilter) ==
    /\ Trim(newFilter.value) # ""
    /\ Len(filters) < MaxFilters
    /\ filters' = Append(filters, newFilter)
    /\ lastEvent' = "addFilter"
    /\ UNCHANGED <<variant, adapter, messages, isLoading, pendingToolCall, request, tags,
                   hostVars, shellVars, searchTerm, lastSettled, lastResponse>>

\* part_009:270-272
handleRemoveFilter(index) ==
    /\ index \in 1..Len(filters)
    /\ filters' = Remove(filters, index)
    /\ lastEvent' = "removeFilter"
    /\ UNCHANGED <<variant, adapter, messages, isLoading, pendingToolCall, request, tags,
                   hostVars, shellVars, searchTerm, lastSettled, lastResponse>>

\* "Clear all" (part_009:339)
clearFilters ==
    /\ Len(filters) > 0
    /\ filters' = <<>>
    /\ lastEvent' = "clearFilters"
    /\ UNCHANGED <<variant, adapter, messages, isLoading, pendingToolCall, request, tags,
                   hostVars, shellVars, searchTerm, lastSettled, lastResponse>>

\* the search box (part_009:287)
setSearchTerm(term) ==
    /\ searchTerm' = term
    /\ lastEvent' = "search"
    /\ UNCHANGED <<variant, adapter, chatVars, hostVars, shellVars, lastSettled, lastResponse>>

(***************************************************************************)
(* The specification                                                       *)
(***************************************************************************)
StartWith(initialRecords) ==
    /\ messages = <<Msg("model", Greeting)>>
    /\ tags = <<Tag(0, "greeting")>>
    /\ isLoading = FALSE
    /\ pendingToolCall = NoCall
    /\ request = NoRequest
    /\ records = initialRecords
    /\ store = initialRecords
    /\ inflight = <<>>
    /\ nextId = 0
    /\ filters = <<>>
    /\ systemDocument = InitialDocument
    /\ storeDocument = InitialDocument
    /\ mounted = TRUE
    /\ lastEvent = "init"
    /\ lastResponse = NoResponse
    /\ lastSettled = NoSettled
    /\ searchTerm = ""
    /\ isLoggedIn = TRUE
    /\ needsSetup = FALSE
    /\ appIsLoading = FALSE

Start == StartWith(InitialRecords)

Init ==
    /\ variant \in Variants
    /\ adapter \in Adapters
    /\ Start

Next ==
    \/ \E userInput \in Inputs : handleSendMessage(userInput)
    \/ \E response \in Responses(variant) : GatewayResolves(response)
    \/ GatewayRejects
    \/ handleConfirmAction
    \/ handleCancelAction
    \/ onSave(NewRecord)
    \/ \E i \in 1..MaxInflight, ok \in BOOLEAN : RecordCallSettles(i, ok)
    \/ \E i \in 1..MaxInflight, ok \in BOOLEAN : DocumentUpdateSettles(i, ok)
    \/ \E i \in 1..MaxInflight, outcome \in LoadOutcomes : DocumentLoadSettles(i, outcome)

Spec == Init /\ [][Next]_vars

\* the awaited gateway call of handleSendMessage settles, one way or the other
\* (AiChatAssistant.tsx:45 and 54, part_003:42 and 54, :203 and :233)
GatewaySettles ==
    \/ \E response \in Responses(variant) : GatewayResolves(response)
    \/ GatewayRejects

\* the same program when every gateway call eventually settles: fetch returns
\* or throws (geminiService.ts:8-28)
SpecLive == Init /\ [][Next]_vars /\ WF_vars(GatewaySettles)

(***************************************************************************)
(* The dashboard with the chat panel closed (isChatOpen is false,          *)
(* DashboardScreen.tsx:38, :143): the user works in the table, whose add,  *)
(* edit, delete and bulk delete overlap while their store calls are in     *)
(* flight                                                                  *)
(***************************************************************************)
InitDirect == Init /\ variant = "B"

NextDirect ==
    \/ onSave(NewRecord)
    \/ \E editingId \in RowIds : onSaveEditing(Edited, editingId)
    \/ \E recordId \in RowIds : onDelete(recordId)
    \/ onBulkDelete(Selected)
    \/ handleDrop(Dragged, "Done")
    \/ \E i \in 1..MaxInflight, ok \in BOOLEAN : RecordCallSettles(i, ok)

SpecDirect == InitDirect /\ [][NextDirect]_vars

\* the same dashboard with a store that accepts every call: a call settles
\* only with success
RecordCallSucceeds(i) == RecordCallSettles(i, TRUE) /\ lastSettled'.ok

NextSucceed ==
    \/ onSave(NewRecord)
    \/ \E editingId \in RowIds : onSaveEditing(Edited, editingId)
    \/ \E recordId \in RowIds : onDelete(recordId)
    \/ onBulkDelete(Selected)
    \/ handleDrop(Dragged, "Done")
    \/ \E i \in 1..MaxInflight : RecordCallSucceeds(i)

SpecSucceed == InitDirect /\ [][NextSucceed]_vars

\* the same dashboard over each of the three record store adapters
InitStore ==
    /\ variant = "B"
    /\ adapter \in StoreAdapters
    /\ Start

SpecStore == InitStore /\ [][NextDirect]_vars

\* the table view of the workspace that hosts the chat panel "D"
InitTable ==
    /\ variant = "D"
    /\ adapter = "supabase"
    /\ StartWith(TableRecords)

NextTable ==
    \/ \E newFilter \in NewFilters : handleAddFilter(newFilter)
    \/ \E index \in 1..MaxFilters : handleRemoveFilter(index)
    \/ clearFilters
    \/ \E term \in SearchTerms : setSearchTerm(term)

SpecTable == InitTable /\ [][NextTable]_vars

(***************************************************************************)
(* The app shell (App.tsx): login, logout, setup, and the loads and        *)
(* updates of the system document that are in flight meanwhile             *)
(***************************************************************************)
\* App.tsx:11-37
createDefaultSystem == [name |-> "New System", version |-> 1]

\* what App renders (App.tsx:186-221)
LoginShown == ~appIsLoading /\ ~isLoggedIn
SetupShown == ~appIsLoading /\ isLoggedIn /\ needsSetup
DashboardShown == ~appIsLoading /\ isLoggedIn /\ ~needsSetup /\ systemDocument # NoDocument
ErrorShown == ~appIsLoading /\ isLoggedIn /\ ~needsSetup /\ systemDocument = NoDocument

\* the documents the dashboard hands to onSystemUpdate
Edits(document) == {Spread(document, [name |-> n]) : n \in {"Mill", "Plant"}}

\* what a shell handler leaves alone
ShellStep(event) ==
    /\ lastEvent' = event
    /\ lastResponse' = NoResponse
    /\ lastSettled' = NoSettled
    /\ UNCHANGED <<chatVars, variant, adapter, searchTerm, records, store, nextId,
                   storeDocument, mounted>>

\* the mount effect (App.tsx:124-144); saved: a login is kept in localStorage
loadInitialData(saved) ==
    /\ lastEvent = "init"
    /\ isLoggedIn' = saved
    /\ appIsLoading' = saved
    /\ inflight' = IF saved THEN Append(inflight, loadSystem) ELSE inflight
    /\ UNCHANGED <<needsSetup, systemDocument>>
    /\ ShellStep("mount")

\* App.tsx:146-151, with the synchronous start of loadSystem (:100-103)
handleLogin ==
    /\ LoginShown
    /\ Len(inflight) < MaxInflight
    /\ isLoggedIn' = TRUE
    /\ appIsLoading' = TRUE
    /\ needsSetup' = FALSE
    /\ inflight' = Append(inflight, loadSystem)
    /\ UNCHANGED systemDocument
    /\ ShellStep("login")

\* App.tsx:91-97, from the dashboard or from the error screen (:208, :216)
handleLogout ==
    /\ DashboardShown \/ ErrorShown
    /\ isLoggedIn' = FALSE
    /\ systemDocument' = NoDocument
    /\ needsSetup' = FALSE
    /\ UNCHANGED <<appIsLoading, inflight>>
    /\ ShellStep("logout")

\* App.tsx:183-186
handleCompleteSetup ==
    /\ SetupShown
    /\ Len(inflight) < MaxInflight
    /\ needsSetup' = FALSE
    /\ appIsLoading' = TRUE
    /\ inflight' = Append(inflight, loadSystem)
    /\ UNCHANGED <<isLoggedIn, systemDocument>>
    /\ ShellStep("setup")

\* App.tsx:153-157, called by the dashboard (App.tsx:207)
onSystemUpdate(updatedDocument) ==
    /\ DashboardShown
    /\ Len(inflight) < MaxInflight
    /\ systemDocument' = updatedDocument
    /\ inflight' = Append(inflight, handleSystemUpdate(updatedDocument))
    /\ UNCHANGED shellVars
    /\ ShellStep("systemUpdate")

\* App.tsx:166-171 (the user accepts window.confirm); the call is named after
\* the handler that awaits it, its continuation is not handleSystemUpdate's
handleResetSystem ==
    /\ DashboardShown
    /\ Len(inflight) < MaxInflight
    /\ appIsLoading' = TRUE
    /\ inflight' = Append(inflight,
           StoreCall("handleResetSystem", systemDocument.id, createDefaultSystem, <<>>))
    /\ UNCHANGED <<isLoggedIn, needsSetup, systemDocument>>
    /\ ShellStep("reset")

\* handleResetSystem after apiService.updateSystemDocument (App.tsx:171-178)
ResetSettles(i, ok) ==
    /\ i \in 1..Len(inflight)
    /\ inflight[i].op = "handleResetSystem"
    /\ LET call == inflight[i]
           updatedDoc == updateSystemDocument(storeDocument, call.data)
       IN /\ storeDocument' = IF ok THEN updatedDoc ELSE storeDocument
          /\ systemDocument' = IF ok THEN updatedDoc ELSE systemDocument
          /\ lastSettled' = [op |-> call.op, id |-> call.id, data |-> call.data,
                             ack |-> call.ack, ok |-> ok, error |-> ~ok]
    /\ appIsLoading' = FALSE
    /\ inflight' = Remove(inflight, i)
    /\ lastEvent' = "settle"
    /\ lastResponse' = NoResponse
    /\ UNCHANGED <<chatVars, variant, adapter, searchTerm, records, store, nextId,
                   mounted, isLoggedIn, needsSetup>>

\* the state after construction (App.tsx:85-88): spinner, logged out, no
\* document; no chat panel is open
InitShell ==
    /\ variant = "C"
    /\ adapter = "supabase"
    /\ messages = <<Msg("model", Greeting)>>
    /\ tags = <<Tag(0, "greeting")>>
    /\ isLoading = FALSE
    /\ pendingToolCall = NoCall
    /\ request = NoRequest
    /\ records = <<>>
    /\ store = InitialRecords
    /\ inflight = <<>>
    /\ nextId = 0
    /\ filters = <<>>
    /\ systemDocument = NoDocument
    /\ storeDocument = InitialDocument
    /\ mounted = FALSE
    /\ lastEvent = "init"
    /\ lastResponse = NoResponse
    /\ lastSettled = NoSettled
    /\ searchTerm = ""
    /\ isLoggedIn = FALSE
    /\ needsSetup = FALSE
    /\ appIsLoading = TRUE

NextShell ==
    \/ \E saved \in BOOLEAN : loadInitialData(saved)
    \/ handleLogin
    \/ handleLogout
    \/ handleCompleteSetup
    \/ \E updatedDocument \in Edits(systemDocument) : onSystemUpdate(updatedDocument)
    \/ handleResetSystem
    \/ \E i \in 1..MaxInflight, ok \in BOOLEAN : ResetSettles(i, ok)
    \/ \E i \in 1..MaxInflight, ok \in BOOLEAN : DocumentUpdateSettles(i, ok)
    \/ \E i \in 1..MaxInflight, outcome \in LoadOutcomes : DocumentLoadSettles(i, outcome)

SpecShell == InitShell /\ [][NextShell]_vars

(***************************************************************************)
(* Properties                                                              *)
(***************************************************************************)
IsPrefix(a, b) == Len(a) <= Len(b) /\ SubSeq(b, 1, Len(a)) = a
Pending == pendingToolCall # NoCall
Prompts == Count(tags, "prompt")
Acks == Count(tags, "ack")

\* every proposal the transcript shows is resolved, except the pending one
OnePending == Prompts - Acks = (IF Pending THEN 1 ELSE 0)

\* a submit event that finds a tool call pending changes nothing of the chat
\* and issues no gateway request
SubmitWhilePendingIsNoOp ==
    (lastEvent' = "submit" /\ Pending)
        => UNCHANGED <<messages, pendingToolCall, isLoading, request>>

\* C1: in every variant at most one tool call is pending after any sequence
\* of submit, response, confirm and cancel events, and a free-text submission
\* made while a tool call is pending is a no-op: transcript, pending slot and
\* loading flag are unchanged and no gateway request is issued.
C1_AtMostOnePending == []OnePending /\ [][SubmitWhilePendingIsNoOp]_vars

\* a submission was attempted while a tool call was pending
C1_Witness == lastEvent = "submit" /\ Pending /\ ~isLoading /\ request = NoRequest

\* C3: cancelling a pending tool call issues no record-store request, leaves
\* the store and the local record list unchanged, clears the pending slot and
\* appends exactly one cancellation acknowledgment to the transcript.
C3_CancelChangesNothing ==
    [][ (lastEvent' = "cancel" /\ Pending)
          => /\ UNCHANGED <<store, records, inflight, nextId, storeDocument, systemDocument>>
             /\ pendingToolCall' = NoCall
             /\ messages' = Append(messages, Msg("model", CancelAckText)) ]_vars

\* a tool call that named a store mutation was cancelled
C3_Witness ==
    /\ lastEvent = "cancel"
    /\ ~Pending
    /\ Last(messages).content = CancelAckText
    /\ store = InitialRecords /\ records = InitialRecords /\ inflight = <<>>

Rank(kind) ==
    CASE kind = "greeting" -> 0
      [] kind = "user" -> 1
      [] kind \in {"reply", "prompt"} -> 2
      [] OTHER -> 3

\* entries are ordered by submission, and within a submission the user
\* message precedes the reply or prompt, which precedes the acknowledgment
TranscriptOrdered ==
    /\ Len(tags) = Len(messages)
    /\ \A i \in 1..Len(tags) :
          /\ (tags[i].kind = "user") <=> (messages[i].role = "user")
          /\ (tags[i].kind = "greeting") <=> (i = 1)
          /\ tags[i].kind = "ack" =>
                \E j \in 1..(i - 1) : tags[j].kind = "prompt" /\ tags[j].sub = tags[i].sub
          /\ tags[i].kind \in {"reply", "prompt"} =>
                \E j \in 1..(i - 1) : tags[j].kind = "user" /\ tags[j].sub = tags[i].sub
    /\ \A i, j \in 1..Len(tags) :
          i < j => \/ tags[i].sub < tags[j].sub
                   \/ tags[i].sub = tags[j].sub /\ Rank(tags[i].kind) < Rank(tags[j].kind)

\* C4: the transcript is append-only (no event removes, rewrites or reorders
\* an entry), for every accepted submission the user message comes before the
\* model reply or confirmation prompt, which comes before the confirm/cancel
\* acknowledgment, and no entry of a later submission precedes an entry of an
\* earlier one.
C4_TranscriptAppendOnly ==
    [][IsPrefix(messages, messages') /\ IsPrefix(tags, tags')]_vars /\ []TranscriptOrdered

\* two complete exchanges, the first confirmed or cancelled
C4_Witness ==
    /\ Len(messages) >= 6
    /\ \E i \in 1..Len(tags) : tags[i].kind = "ack" /\ tags[i].sub = 1
    /\ \E i \in 1..Len(tags) : tags[i].kind \in {"reply", "prompt"} /\ tags[i].sub = 2

MutationOps ==
    {"addRecord", "updateRecord", "deleteRecord", "deleteBulkRecords", "updateSystemDocument"}

\* a call the dashboard's table started (form, row button, selection), not
\* the chat
DirectEvents == {"form", "edit", "delete", "bulk", "drop"}
FromForm(call) ==
    /\ variant = "B"
    /\ call.op \in {"addRecord", "updateRecord", "deleteRecord", "deleteBulkRecords"}
    /\ call.ack = 0

\* every mutation call in flight that the record form did not start was
\* issued by a confirm: it carries the position of the acknowledgment that
\* confirm appended
IssuedByConfirm ==
    \A i \in 1..Len(inflight) :
        (inflight[i].op \in MutationOps /\ ~FromForm(inflight[i])) =>
            /\ inflight[i].ack \in 1..Len(tags)
            /\ tags[inflight[i].ack].kind = "ack"

\* C5: the chat issues no record-store mutation when a message is submitted
\* or a gateway response arrives; a store mutation is issued only inside the
\* confirm of a pending tool call, and the store and the local list change
\* only when such a call settles.
C5_MutationOnlyOnConfirm ==
    /\ []IssuedByConfirm
    /\ [][ /\ lastEvent' \in {"submit", "response", "failure", "cancel"}
               => UNCHANGED <<store, records, inflight, nextId, storeDocument, systemDocument>>
           /\ Len(inflight') > Len(inflight)
               => \/ lastEvent' = "confirm" /\ Pending
                  \/ lastEvent' \in DirectEvents /\ FromForm(Last(inflight'))
           /\ <<store, records, storeDocument>>' # <<store, records, storeDocument>>
               => lastEvent' = "settle" ]_vars

\* a proposal was received, nothing has been confirmed, nothing has changed
C5_Witness ==
    /\ lastEvent = "response"
    /\ Pending
    /\ Acks = 0
    /\ store = InitialRecords /\ records = InitialRecords /\ inflight = <<>>

\* C8: after a confirm of a pending tool call the pending slot is empty and a
\* free-text submission is accepted again, whatever the dispatch outcome was
\* (success, unknown tool name, missing arguments, a throwing dispatch).
C8_ConfirmAlwaysClears ==
    [][ (lastEvent' = "confirm" /\ Pending)
          => /\ pendingToolCall' = NoCall
             /\ ~rejects("set status to Done", isLoading', pendingToolCall') ]_vars

\* a confirm whose dispatch threw
C8_Witness ==
    /\ lastEvent = "confirm"
    /\ Last(messages).content = ErrorAckText
    /\ ~Pending


(***************************************************************************)
(* Claims the code does not meet                                           *)
(***************************************************************************)
\* the record update a pending entry proposes (is = FALSE for none)
PendingUpdate(v, p) ==
    IF p = NoCall THEN [is |-> FALSE, id |-> Undefined, updates |-> <<>>]
    ELSE IF v = "B" THEN [is |-> TRUE, id |-> p.recordId, updates |-> p.updates]
    ELSE [is |-> v \in {"A", "D"} /\ p.name = "updateRecord",
          id |-> StrArg(p.args, "recordId"),
          updates |-> ObjArg(p.args, IF v = "A" THEN "updates" ELSE "record")]

\* record r has U's values in U's fields and, in every other field, the
\* value the record had before
ReflectsExactly(r, U, was) ==
    /\ \A f \in DOMAIN U : f \in DOMAIN r /\ r[f] = U[f]
    /\ \A f \in (DOMAIN r) \ (DOMAIN U) : f \in DOMAIN was /\ r[f] = was[f]

PendingDelete(v, p) ==
    IF p # NoCall /\ v \in {"A", "D"} /\ p.name = "deleteRecord"
    THEN StrArg(p.args, "recordId") ELSE Undefined

\* C6: confirming a pending deleteRecord{Y} whose Y is not in the local list
\* appends the failure acknowledgment, not the success one, and leaves the
\* chat idle and mounted.
C6_DeleteOfMissingRecordFails ==
    [][ ( /\ lastEvent' = "confirm"
          /\ Truthy(PendingDelete(variant, pendingToolCall))
          /\ PendingDelete(variant, pendingToolCall) \notin Ids(records) )
        => /\ messages' = Append(messages, Msg("model", ErrorAckText))
           /\ pendingToolCall' = NoCall
           /\ mounted' ]_vars

\* a delete of a record the local list does not hold was just confirmed
C6_Witness ==
    /\ lastEvent = "confirm"
    /\ \E i \in 1..Len(inflight) :
          /\ inflight[i].op = "deleteRecord"
          /\ inflight[i].ack = Len(messages)
          /\ inflight[i].id \notin Ids(records)

\* C7: when the store mutation a confirm dispatched fails, the
\* acknowledgment that confirm appended is the failure acknowledgment, not
\* the "Done" one.
C7_FailedMutationAcknowledgedAsFailure ==
    (lastSettled.op \in MutationOps /\ lastSettled.ack # 0 /\ ~lastSettled.ok)
        => /\ lastSettled.ack \in 1..Len(messages)
           /\ messages[lastSettled.ack].content = ErrorAckText

\* a store call the chat dispatched has failed
C7_Witness ==
    /\ lastSettled.op \in MutationOps /\ lastSettled.ack # 0 /\ ~lastSettled.ok
    /\ messages[lastSettled.ack].role = "model"

\* the tool call a response body proposes, with the confirmation message it
\* carries (is = FALSE when the body proposes none; searchRecords is applied
\* without confirmation and proposes nothing)
Proposed(v, response) ==
    IF v = "B"
    THEN IF response.json /\ response.value.action = "PROPOSE_UPDATE"
            /\ Has(response.value, "payload")
         THEN [is |-> TRUE, name |-> "updateRecord", args |-> response.value.payload,
               confirmation |-> StrArg(response.value.payload, "confirmationMessage")]
         ELSE [is |-> FALSE, name |-> Undefined, args |-> <<>>, confirmation |-> Undefined]
    ELSE IF Has(response, "toolCall") /\ response.toolCall.name # "searchRecords"
         THEN [is |-> TRUE, name |-> response.toolCall.name, args |-> response.toolCall.args,
               confirmation |->
                   IF v = "A" THEN StrArg(response.toolCall, "confirmationMessage")
                   ELSE StrArg(response.toolCall.args, "confirmationMessage")]
         ELSE [is |-> FALSE, name |-> Undefined, args |-> <<>>, confirmation |-> Undefined]

ErrorTexts == {UnexpectedText, IncompleteText}

\* the response was refused: nothing pending, an error message appended
Refused ==
    /\ pendingToolCall' = NoCall
    /\ \E e \in ErrorTexts : messages' = Append(messages, Msg("model", e))

\* C9: when the gateway returns a tool call whose confirmation message is
\* missing or empty, nothing is stored as pending and an error message is
\* appended as a model turn.
C9_MissingConfirmationRefused ==
    [][ ( /\ lastEvent' = "response"
          /\ Proposed(variant, lastResponse').is
          /\ ~Truthy(Proposed(variant, lastResponse').confirmation) )
        => Refused ]_vars

\* a tool call without confirmation message arrived and was refused
C9_Witness ==
    /\ lastEvent = "response"
    /\ Proposed(variant, lastResponse).is
    /\ ~Truthy(Proposed(variant, lastResponse).confirmation)
    /\ ~Pending
    /\ Last(messages).content \in ErrorTexts

\* the argument that holds a tool call's record data
DataArg(v, name) ==
    IF v = "A" THEN (IF name = "addRecord" THEN "recordData" ELSE "updates")
    ELSE IF v = "B" THEN "updates" ELSE "record"

\* the proposed call lacks the recordId an update or delete needs, or the
\* record data a create or update needs
LacksRequired(v, call) ==
    \/ call.name \in {"updateRecord", "deleteRecord"} /\ ~Truthy(StrArg(call.args, "recordId"))
    \/ call.name \in {"addRecord", "createRecord", "updateRecord"}
          /\ ~Has(call.args, DataArg(v, call.name))

\* C10: when the gateway returns an update or delete tool call without a
\* recordId, or a create or update call without record data, no pending tool
\* call is stored and an error is appended in place of a confirmation prompt.
C10_IncompleteArgumentsRefused ==
    [][ ( /\ lastEvent' = "response"
          /\ Proposed(variant, lastResponse').is
          /\ LacksRequired(variant, Proposed(variant, lastResponse')) )
        => Refused ]_vars

\* a delete without recordId arrived with its confirmation message
C10_Witness ==
    /\ lastEvent = "response"
    /\ Proposed(variant, lastResponse).is
    /\ Proposed(variant, lastResponse).name = "deleteRecord"
    /\ LacksRequired(variant, Proposed(variant, lastResponse))
    /\ Truthy(Proposed(variant, lastResponse).confirmation)

(***************************************************************************)
(* Malformed responses and gateway failures                                *)
(***************************************************************************)
\* the response body carries neither a text nor a tool call
Empty(v, response) ==
    IF v = "B"
    THEN ~response.json /\ response.raw = Undefined
    ELSE ~Has(response, "toolCall") /\ ~(Has(response, "text") /\ Truthy(response.text))

\* C11: when the gateway response carries neither text nor a tool call,
\* exactly one fixed fallback message is appended as a model turn, nothing
\* becomes pending and no store mutation is issued.
C11_EmptyResponseFallsBack ==
    [][ (lastEvent' = "response" /\ Empty(variant, lastResponse'))
        => /\ messages' = Append(messages, Msg("model", UnexpectedText))
           /\ pendingToolCall' = NoCall
           /\ UNCHANGED <<inflight, store, records, storeDocument>> ]_vars

\* an empty response was answered with the fallback message
C11_Witness ==
    /\ lastEvent = "response"
    /\ Empty(variant, lastResponse)
    /\ Last(messages) = Msg("model", UnexpectedText)
    /\ ~Pending

\* C12: when the gateway call fails, exactly one generic error message is
\* appended as a model turn, nothing is pending, no store mutation is issued,
\* the loading flag is cleared and the user message that triggered the call
\* stays in the transcript.
C12_GatewayFailureReported ==
    [][ lastEvent' = "failure"
        => /\ messages' = Append(messages, Msg("model", ChatErrorText))
           /\ Last(messages) = Last(request)
           /\ Last(messages).role = "user"
           /\ pendingToolCall' = NoCall
           /\ ~isLoading'
           /\ UNCHANGED <<inflight, store, records, storeDocument, systemDocument>> ]_vars

\* a gateway call has failed and the error message follows the user's message
C12_Witness ==
    /\ lastEvent = "failure"
    /\ Last(messages) = Msg("model", ChatErrorText)
    /\ messages[Len(messages) - 1].role = "user"
    /\ ~isLoading

(***************************************************************************)
(* The confirm dispatch                                                    *)
(***************************************************************************)
\* the record mutation a pending entry asks for: the store operation its
\* name stands for, the record id and the record data stored with it
\* (is = FALSE when the entry is none of the panel's record tools)
PendingMutation(v, p) ==
    IF p = NoCall \/ v = "C"
    THEN [is |-> FALSE, op |-> "none", id |-> Undefined, data |-> <<>>]
    ELSE IF v = "B"
    THEN [is |-> TRUE, op |-> "updateRecord", id |-> p.recordId, data |-> p.updates]
    ELSE IF p.name \in {"addRecord", "createRecord"}
    THEN [is |-> p.name = (IF v = "A" THEN "addRecord" ELSE "createRecord"),
          op |-> "addRecord", id |-> Undefined,
          data |-> ObjArg(p.args, DataArg(v, p.name))]
    ELSE IF p.name = "updateRecord"
    THEN [is |-> TRUE, op |-> "updateRecord", id |-> StrArg(p.args, "recordId"),
          data |-> ObjArg(p.args, DataArg(v, p.name))]
    ELSE [is |-> p.name = "deleteRecord", op |-> "deleteRecord",
          id |-> StrArg(p.args, "recordId"), data |-> <<>>]

\* C13: each confirm of a pending create/add, update or delete tool call
\* issues exactly one record-store request, of the kind the tool call names
\* and with the arguments stored when it was proposed; a confirm with nothing
\* pending issues no request and changes nothing.
C13_OneRequestPerConfirm ==
    [][ lastEvent' = "confirm"
        => /\ pendingToolCall = NoCall => UNCHANGED <<chatVars, hostVars>>
           /\ PendingMutation(variant, pendingToolCall).is
                => /\ Len(inflight') = Len(inflight) + 1
                   /\ SubSeq(inflight', 1, Len(inflight)) = inflight
                   /\ Last(inflight').op = PendingMutation(variant, pendingToolCall).op
                   /\ Last(inflight').id = PendingMutation(variant, pendingToolCall).id
                   /\ Last(inflight').data = PendingMutation(variant, pendingToolCall).data
      ]_vars

\* a confirm has just issued the request of a pending delete
C13_Witness ==
    /\ lastEvent = "confirm"
    /\ inflight # <<>>
    /\ Last(inflight).op = "deleteRecord"
    /\ Last(inflight).id = "r2"
    /\ Last(inflight).ack = Len(messages)

\* the tool names the confirm dispatch of a panel recognises
Recognised(v) ==
    CASE v = "A" -> {"addRecord", "updateRecord", "deleteRecord"}
      [] v = "C" -> {"updateSystem"}
      [] OTHER   -> {"createRecord", "updateRecord", "deleteRecord"}

\* a tool call is pending whose name the panel does not recognise
UnknownPending == Pending /\ variant # "B" /\ pendingToolCall.name \notin Recognised(variant)

\* C14: confirming a pending tool call with an unrecognised name issues no
\* store request, leaves the local list unchanged, appends the error
\* acknowledgment (not the success one) and clears the pending slot.
C14_UnknownToolRefused ==
    [][ (lastEvent' = "confirm" /\ UnknownPending)
        => /\ UNCHANGED <<inflight, records, store, systemDocument, storeDocument>>
           /\ messages' = Append(messages, Msg("model", ErrorAckText))
           /\ pendingToolCall' = NoCall ]_vars

\* the panel of AiChatAssistant.tsx, whose dispatch throws for an unknown
\* name only, has answered a confirm with the error acknowledgment
C14_Witness ==
    /\ variant = "A"
    /\ lastEvent = "confirm"
    /\ ~Pending
    /\ Last(messages) = Msg("model", ErrorAckText)
    /\ inflight = <<>> /\ records = InitialRecords

(***************************************************************************)
(* Round trip of a created record                                          *)
(***************************************************************************)
\* record rec has R's value in every field of R
Carries(rec, R) == \A f \in DOMAIN R : f \in DOMAIN rec /\ rec[f] = R[f]

\* C15: after a create/add tool call with record argument R is confirmed and
\* the store accepts it, a fetch of the record list contains a record that
\* has R's value in every field of R, and that record is at the front of the
\* local list.
C15_CreatedRecordRoundTrips ==
    [][ (lastSettled'.op = "addRecord" /\ lastSettled'.ack # 0 /\ lastSettled'.ok)
        => /\ records' # <<>>
           /\ Carries(records'[1], lastSettled'.data)
           /\ \E i \in 1..Len(getRecords(store')) : getRecords(store')[i] = records'[1]
      ]_vars

\* a record the chat created is in the store and at the front of the local list
C15_Witness ==
    /\ lastSettled.op = "addRecord" /\ lastSettled.ack # 0 /\ lastSettled.ok
    /\ records[1] = store[1]
    /\ records[1].name = NewRecord.name

\* the local list shows the change a direct call makes
ShowsChange(local, call) ==
    IF call.op = "deleteRecord"
    THEN call.id \notin Ids(local)
    ELSE /\ call.id \in Ids(local)
         /\ \A f \in DOMAIN call.data : /\ Has(Find(local, call.id), f)
                                        /\ Find(local, call.id)[f] = call.data[f]

\* C16: when the user edits or deletes a record directly (form, row button,
\* board), the local list shows the change as soon as the operation starts,
\* before its store call completes; when the store call of an edit or a
\* delete fails, the local list is exactly the list the operation started
\* from.
C16_DirectChangeShownAtOnce ==
    [][ /\ lastEvent' \in {"edit", "delete", "drop"}
            => ShowsChange(records', Last(inflight'))
        /\ \A i \in 1..Len(inflight) :
              ( /\ lastEvent' = "settle"
                /\ inflight' = Remove(inflight, i)
                /\ inflight[i].op \in {"updateRecord", "deleteRecord"}
                /\ inflight[i].snapshot # <<>>
                /\ ~lastSettled'.ok )
              => records' = inflight[i].snapshot
      ]_vars

\* a row's delete button was pressed, the store call is in flight and the
\* row is still in the local list
C16_Witness ==
    /\ lastEvent = "delete"
    /\ inflight # <<>>
    /\ Last(inflight).op = "deleteRecord"
    /\ Last(inflight).ack = 0
    /\ Last(inflight).id \in Ids(records)

\* two lists hold exactly the same records
SameRecords(a, b) ==
    /\ Len(a) = Len(b)
    /\ {a[i] : i \in 1..Len(a)} = {b[i] : i \in 1..Len(b)}

\* C17: whatever the interleaving of direct adds, edits, deletes and bulk
\* deletes whose store calls all succeed, once no store call is in flight the
\* local list holds exactly the records of the store, with the same field
\* values.
C17_LocalListMatchesStore == (inflight = <<>>) => SameRecords(records, getRecords(store))

\* two direct operations overlapped, both succeeded, nothing is in flight
C17_Witness ==
    /\ inflight = <<>>
    /\ lastEvent = "settle"
    /\ lastSettled.ok
    /\ Len(store) < Len(InitialRecords)
    /\ "n1" \in Ids(store)

\* C18: while a gateway request is in flight a further submission is
\* rejected and leaves the transcript as it is; a gateway request is issued
\* only when none is outstanding, so at most one is outstanding at any time;
\* the pending slot is written only by the handler of the one response that
\* answers the outstanding request, and only when the slot is empty.
C18_OneGatewayRequestAtATime ==
    /\ [](isLoading <=> request # NoRequest)
    /\ [][ /\ (lastEvent' = "submit" /\ request # NoRequest)
               => UNCHANGED <<messages, tags, request, isLoading, pendingToolCall>>
           /\ (request' # request /\ request' # NoRequest)
               => (lastEvent' = "submit" /\ request = NoRequest)
           /\ (pendingToolCall' # pendingToolCall /\ pendingToolCall' # NoCall)
               => /\ lastEvent' = "response"
                  /\ request # NoRequest
                  /\ request' = NoRequest
                  /\ pendingToolCall = NoCall
          ]_vars

\* a request is in flight and the last thing that happened is a submission:
\* every further submission made in this state is one the panel rejects
C18_Witness ==
    /\ lastEvent = "submit"
    /\ isLoading
    /\ request # NoRequest
    /\ request = messages
    /\ Last(messages).role = "user"
    /\ pendingToolCall = NoCall

\* the store mutation calls among the calls in flight
Mutations(calls) == SelectSeq(calls, LAMBDA c : c.op \in MutationOps)

\* C19: nothing is retried.  A gateway request is issued exactly when a
\* submission is accepted, one request per accepted submission and carrying
\* that submission's history, so as many requests are issued as submissions
\* are accepted; a failed gateway call leaves no request outstanding and
\* issues no store call; a failed store mutation call is dropped and no
\* mutation call takes its place.
C19_NothingRetried ==
    [][ /\ (lastEvent' = "submit" /\ messages' # messages)
            <=> (request = NoRequest /\ request' # NoRequest)
        /\ (request' # NoRequest /\ request' # request)
            => (request = NoRequest /\ request' = messages' /\ Last(messages').role = "user")
        /\ lastEvent' = "failure"
            => (request' = NoRequest /\ ~isLoading' /\ inflight' = inflight)
        /\ (lastEvent' = "settle" /\ lastSettled'.op \in MutationOps /\ ~lastSettled'.ok)
            => \E i \in 1..Len(inflight) :
                  /\ inflight[i].op = lastSettled'.op
                  /\ Mutations(inflight') = Mutations(Remove(inflight, i))
      ]_vars

\* a store mutation call the chat issued has failed, no mutation call is in
\* flight any more and no gateway request is outstanding
C19_Witness ==
    /\ lastEvent = "settle"
    /\ lastSettled.op \in MutationOps
    /\ lastSettled.ack # 0
    /\ ~lastSettled.ok
    /\ Mutations(inflight) = <<>>
    /\ request = NoRequest

\* the model outputs the server chat handler of a panel can receive and the
\* body it builds from one ("B" does not go through these handlers)
Answers(v) == CASE v = "A" -> GeminiA [] v = "C" -> GeminiC [] OTHER -> GeminiD
Body(v, answer) == IF v = "A" THEN handleChat(answer) ELSE handleAiResponse(answer)

\* the declared tools that only read: getSummary (gemini.ts) and
\* searchRecords (part_011); every other function call modifies data
DataModifying(call) == call.name \notin {"getSummary", "searchRecords"}

WellFormedBody(answer, body) ==
    /\ Has(body, "toolCall") # Has(body, "text")
    /\ Has(body, "toolCall")
           <=> \E i \in 1..Len(answer.calls) : DataModifying(answer.calls[i])
    /\ Has(body, "toolCall")
           => /\ body.toolCall.name = answer.calls[1].name
              /\ body.toolCall.args = answer.calls[1].args

\* C20: every response body the server chat handler builds has a toolCall or
\* a text and never both; it has a toolCall exactly when the model output has
\* at least one data-modifying function call, and the toolCall is then the
\* first function call of the output.
C20_BodyIsTextOrToolCall ==
    (lastEvent = "response" /\ variant # "B")
        => \A answer \in Answers(variant) :
              Body(variant, answer) = lastResponse => WellFormedBody(answer, lastResponse)

\* the panel received a body built from a model output with two function
\* calls, of which only the first was forwarded
C20_Witness ==
    /\ lastEvent = "response"
    /\ variant # "B"
    /\ \E answer \in Answers(variant) :
          /\ Len(answer.calls) = 2
          /\ Body(variant, answer) = lastResponse
          /\ WellFormedBody(answer, lastResponse)

\* C21: the history sent with a gateway request is the whole transcript as
\* it was when the message was submitted, in the same order, followed by the
\* submitted user message; the contents the server handler builds from it
\* have one entry per transcript entry, in order, with its role and text.
C21_WholeTranscriptSent ==
    [][ (request' # NoRequest /\ request' # request)
            => /\ Len(request') = Len(messages) + 1
               /\ SubSeq(request', 1, Len(messages)) = messages
               /\ Last(request').role = "user"
               /\ Last(request').content \in Inputs
               /\ request' = messages'
               /\ Len(contents(request')) = Len(request')
               /\ \A i \in 1..Len(request') :
                     /\ contents(request')[i].role = request'[i].role
                     /\ contents(request')[i].parts = <<[text |-> request'[i].content]>>
      ]_vars

\* a second message was submitted: the request carries the greeting, the
\* first exchange and the new message
C21_Witness ==
    /\ lastEvent = "submit"
    /\ request # NoRequest
    /\ Len(request) >= 4
    /\ request[1] = Msg("model", Greeting)
    /\ request[2].role = "user"
    /\ request[3].role = "model"
    /\ Last(request).role = "user"

\* the response is a plain text answer: a body with a text and no tool call,
\* for "B" a text that is not JSON
IsPlainText(v, response) ==
    IF v = "B"
    THEN ~response.json /\ response.raw # Undefined
    ELSE Has(response, "text") /\ ~Has(response, "toolCall") /\ Truthy(response.text)

TextOf(v, response) == IF v = "B" THEN response.raw ELSE response.text

\* C22: when the gateway answers a submission with plain text, exactly that
\* text is appended as one model turn, no pending tool call is created, the
\* chat is idle again (not loading, nothing pending) and no store call is
\* issued and nothing in the store or the local list changes.
C22_PlainTextAppended ==
    [][ (lastEvent' = "response" /\ IsPlainText(variant, lastResponse'))
            => /\ messages' = Append(messages, Msg("model", TextOf(variant, lastResponse')))
               /\ pendingToolCall' = NoCall
               /\ ~isLoading'
               /\ request' = NoRequest
               /\ UNCHANGED <<inflight, store, records, storeDocument, systemDocument, filters>>
      ]_vars

\* the gateway has just answered with a clarification request
C22_Witness ==
    /\ lastEvent = "response"
    /\ IsPlainText(variant, lastResponse)
    /\ TextOf(variant, lastResponse) = ClarifyText
    /\ Last(messages) = Msg("model", ClarifyText)
    /\ pendingToolCall = NoCall
    /\ ~isLoading

\* C23: when the store reports an error for an update, a delete or a bulk
\* delete, the adapter operation fails to its caller and the stored records
\* are unchanged: the adapter never reports success for a request the store
\* rejected.
C23_StoreErrorPropagates ==
    [][ ( /\ lastEvent' = "settle"
          /\ lastSettled'.op \in {"updateRecord", "deleteRecord", "deleteBulkRecords"}
          /\ lastSettled'.error )
            => (~lastSettled'.ok /\ store' = store)
      ]_vars

\* the store has rejected the update of a record that is no longer stored
\* and the adapter has failed
C23_Witness ==
    /\ lastEvent = "settle"
    /\ lastSettled.op = "updateRecord"
    /\ lastSettled.error
    /\ ~lastSettled.ok
    /\ lastSettled.id \notin Ids(store)

\* the rows the table displays
Displayed == filteredRecords(records, filters, searchTerm)
Rows(list) == {list[i] : i \in 1..Len(list)}

\* C24: the displayed records are exactly the records that satisfy every
\* active filter and the free-text search, each shown once; adding a filter
\* never adds a record to the displayed set; when all filters are removed
\* every record that matches the search is displayed.
C24_FiltersAreConjunctive ==
    /\ [](/\ Rows(Displayed) =
               {r \in Rows(records) :
                   /\ \A i \in 1..Len(filters) : matches(r, filters[i])
                   /\ (searchTerm # "" => matchesSearch(r, searchTerm))}
           /\ Len(Displayed) = Cardinality(Rows(Displayed)))
    /\ [][ /\ lastEvent' = "addFilter"
                => Rows(Displayed') \subseteq Rows(Displayed)
           /\ (filters' = <<>>)
                => Rows(Displayed') =
                      {r \in Rows(records') : (searchTerm' # "" => matchesSearch(r, searchTerm'))}
         ]_vars

\* two filters and a search are active and narrow the table to one row
C24_Witness ==
    /\ Len(filters) = 2
    /\ filters[1] # filters[2]
    /\ searchTerm # ""
    /\ Len(Displayed) = 1
    /\ Len(filteredRecords(records, <<filters[1]>>, "")) > 1

\* C25: when a mutation the chat issued fails in the store, the local state
\* (record list, system document) is neither rolled back nor replaced: the
\* step that reports the failure leaves it as it was, and the reload the
\* failure handler starts does not put another document in its place.
C25_NoRollbackOfChatMutation ==
    [][ /\ ( /\ lastEvent' = "settle"
              /\ lastSettled'.op \in MutationOps
              /\ lastSettled'.ack # 0
              /\ ~lastSettled'.ok )
            => UNCHANGED <<records, systemDocument>>
        /\ (lastEvent' = "settle" /\ lastSettled'.op = "getSystemDocument")
            => UNCHANGED <<records, systemDocument>>
      ]_vars

\* a confirmed updateSystem has failed in the store: the document the panel
\* put in place is still the local one and differs from the stored one
C25_Witness ==
    /\ variant = "C"
    /\ lastEvent = "settle"
    /\ lastSettled.op = "updateSystemDocument"
    /\ lastSettled.ack # 0
    /\ ~lastSettled.ok
    /\ systemDocument # storeDocument
    /\ systemDocument # NoDocument

\* the response is a searchRecords tool call
IsSearch(response) == Has(response, "toolCall") /\ response.toolCall.name = "searchRecords"

\* C26: in the panel with the searchRecords tool, a searchRecords tool call
\* is applied when it arrives, without confirmation: the pending slot stays
\* empty, the filters of the call, when it has any, become the active
\* filters, its response message, when it has one, is the only entry
\* appended, no store call is issued and nothing in the store or the local
\* list changes; a searchRecords call is never pending, so it never reaches
\* the confirm dispatch.
C26_SearchAppliedAtOnce ==
    /\ [](variant = "D" => (pendingToolCall = NoCall \/ pendingToolCall.name # "searchRecords"))
    /\ [][ (variant = "D" /\ lastEvent' = "response" /\ IsSearch(lastResponse'))
               => LET args == lastResponse'.toolCall.args IN
                  /\ pendingToolCall' = NoCall
                  /\ filters' = IF Has(args, "filters") THEN args.filters ELSE filters
                  /\ messages' = IF Truthy(StrArg(args, "responseMessage"))
                                 THEN Append(messages, Msg("model", args.responseMessage))
                                 ELSE messages
                  /\ ~isLoading'
                  /\ UNCHANGED <<inflight, store, records, nextId>>
         ]_vars

\* a searchRecords call with filters has just been applied
C26_Witness ==
    /\ variant = "D"
    /\ lastEvent = "response"
    /\ IsSearch(lastResponse)
    /\ Has(lastResponse.toolCall.args, "filters")
    /\ filters = lastResponse.toolCall.args.filters
    /\ filters # <<>>
    /\ pendingToolCall = NoCall
    /\ inflight = <<>>

\* C27: when an updateSystem tool call is confirmed, the document handed to
\* the update callback (and put in place locally) has the id and created_at
\* of the document that was current before the confirm, whatever the tool
\* call's updatedSystem carried for them; the update sent to the store has
\* no created_at, and the stored created_at stays as it is.
C27_UpdateSystemKeepsIdentity ==
    [][ /\ ( /\ variant = "C"
              /\ lastEvent' = "confirm"
              /\ pendingToolCall # NoCall
              /\ pendingToolCall.name = "updateSystem" )
            => /\ Len(inflight') = Len(inflight) + 1
               /\ Last(inflight').op = "updateSystemDocument"
               /\ Last(inflight').data.id = systemDocument.id
               /\ Last(inflight').data.created_at = systemDocument.created_at
               /\ Last(inflight').id = systemDocument.id
               /\ systemDocument' = Last(inflight').data
        /\ (lastEvent' = "settle" /\ lastSettled'.op = "updateSystemDocument")
            => /\ "created_at" \notin DOMAIN updateData(lastSettled'.data)
               /\ storeDocument'.created_at = storeDocument.created_at
               /\ storeDocument'.id = storeDocument.id
      ]_vars

\* an updateSystem call whose updatedSystem carried an id and a created_at of
\* its own was confirmed and stored: the stored document has the new name and
\* the old identity
C27_Witness ==
    /\ variant = "C"
    /\ lastEvent = "settle"
    /\ lastSettled.op = "updateSystemDocument"
    /\ lastSettled.ok
    /\ storeDocument.name = "Mill"
    /\ storeDocument.id = InitialDocument.id
    /\ storeDocument.created_at = InitialDocument.created_at

\* the confirmation message that came with the pending call (the panel of
\* part_002 keeps only recordId and updates: its message is the payload's)
ConfirmationMessage(v, pending, response) ==
    CASE v = "A" -> StrArg(pending, "confirmationMessage")
      [] v = "B" -> StrArg(response.value.payload, "confirmationMessage")
      [] OTHER   -> StrArg(pending.args, "confirmationMessage")

\* C28: in every reachable state with a pending tool call the loading flag is
\* false and the last transcript entry is a model turn whose content is the
\* confirmation message of that pending call: it is so when the call is
\* parked, and the transcript does not move while the call stays pending.
C28_PendingShowsItsPrompt ==
    /\ [](pendingToolCall # NoCall
            => /\ ~isLoading
               /\ request = NoRequest
               /\ Len(messages) > 0
               /\ Last(messages).role = "model"
               /\ Last(tags).kind = "prompt"
               /\ (variant # "B"
                    => Last(messages).content
                         = ConfirmationMessage(variant, pendingToolCall, lastResponse)))
    /\ [][ /\ (pendingToolCall = NoCall /\ pendingToolCall' # NoCall)
               => /\ lastEvent' = "response"
                  /\ messages' = Append(messages,
                         Msg("model", ConfirmationMessage(variant, pendingToolCall', lastResponse')))
           /\ (pendingToolCall # NoCall /\ pendingToolCall' # NoCall)
               => /\ pendingToolCall' = pendingToolCall
                  /\ messages' = messages
                  /\ isLoading' = isLoading
        ]_vars

\* a tool call is pending, and store traffic of the dashboard went on while
\* it waited
C28_Witness ==
    /\ pendingToolCall # NoCall
    /\ lastEvent = "settle"
    /\ Len(messages) >= 2
    /\ Last(messages).role = "model"
    /\ messages[Len(messages) - 1].role = "user"

\* submission n was accepted and its gateway call is awaited
Awaited(n) == mounted /\ isLoading /\ request # NoRequest /\ UserTurns(request) = n

\* the model turns appended in answer to submission n
AnswersTo(n) == {i \in 1..Len(tags) : tags[i].sub = n /\ tags[i].kind \in {"reply", "prompt"}}

\* C29: when every gateway call eventually settles, every accepted submission
\* leads to a state where the loading flag is false and exactly one model
\* turn has been appended for it, and then free text is accepted again or a
\* confirm/cancel choice is pending (or the panel is gone from the screen).
C29_SubmissionAnsweredOnce ==
    \A n \in 1..MaxMsgs :
        Awaited(n) ~> ( \/ ~mounted
                        \/ /\ ~isLoading
                           /\ Cardinality(AnswersTo(n)) = 1
                           /\ (pendingToolCall # NoCall \/ ~rejects("hi", isLoading, pendingToolCall)) )

\* what the program does keep: the loading flag is cleared when the call
\* settles, with at most one model turn appended for the submission
C29_LoadingAlwaysCleared ==
    \A n \in 1..MaxMsgs :
        Awaited(n) ~> ( \/ ~mounted
                        \/ /\ ~isLoading
                           /\ request = NoRequest
                           /\ Cardinality(AnswersTo(n)) <= 1
                           /\ (variant # "D" => Cardinality(AnswersTo(n)) = 1) )

\* a searchRecords answer without a responseMessage has settled: the filters
\* are applied, the chat is idle, and no model turn answers the submission
C29_Witness ==
    /\ variant = "D"
    /\ lastEvent = "response"
    /\ IsSearch(lastResponse)
    /\ ~isLoading
    /\ pendingToolCall = NoCall
    /\ Last(tags).kind = "user"
    /\ AnswersTo(Last(tags).sub) = {}

\* C30: in every reachable state of the app shell, being logged out implies
\* that there is no system document and that setup is not asked for, also
\* when a logout happens while a load is in flight and the load completes
\* afterwards.
C30_LoggedOutHasNoDocument ==
    ~isLoggedIn => (systemDocument = NoDocument /\ ~needsSetup)

\* the user has logged out while a load of the system document is in flight
C30_Witness ==
    /\ lastEvent = "logout"
    /\ ~isLoggedIn
    /\ systemDocument = NoDocument
    /\ \E i \in 1..Len(inflight) : inflight[i].op = "getSystemDocument"

\* what the program does keep: the logout itself, and every step taken with
\* nothing in flight, end in a state where logged out means no document
C30_LogoutClearsDocument ==
    [][ /\ lastEvent' = "logout" => (~isLoggedIn' /\ systemDocument' = NoDocument /\ ~needsSetup')
        /\ (inflight = <<>> /\ C30_LoggedOutHasNoDocument) => C30_LoggedOutHasNoDocument'
      ]_vars


====
